---- MODULE Spec2Model ----
(***************************************************************************)
(* State-machine model of main.c of STM32_FreeRTOS_General_Application:    *)
(* the UART write task and its queue, the timed line reader, the Main Menu *)
(* task with its inline management routines, the Clock, Game, Calculator   *)
(* and Temperature Monitor tasks, and the USART2 and RTC alarm interrupt   *)
(* handlers, under the two task priorities set in main().                  *)
(***************************************************************************)
EXTENDS Integers, Sequences, FiniteSets, TLC

(***************************************************************************)
(* Bounds of the model.                                                    *)
(***************************************************************************)
\* The tick counter is kept modulo TickMod (TickType_t scaled down).
TickMod == 4
\* pdMS_TO_TICKS(30000), scaled down to the model's tick range.
TimeoutTicks == 2
\* Every message is transmitted as this many bytes.
MsgBytes == 2
\* Cap on ulNumOfGuesses within one round of the game.
MaxGuesses == 3
\* Cap on the bytes one call of xReceiveUartMsg stores in its buffer when
\* the buffer is not the line being typed (another call took a return key);
\* a line typed to the call is stored whole.
MaxLine == 2
\* Length up to which every string over the digits 0, 1 and 9 is typed.
MaxDigits == 2
\* The sizes of the receive buffers (50 and 150 bytes) are divided by this.
BufferScale == 10

(***************************************************************************)
(* Program constants.                                                      *)
(***************************************************************************)
QUEUE_LENGTH == 10
INVALID_NUM == -1
RUN_CLOCK == 1
RUN_GAME == 2
RUN_CALCULATOR == 3
MONITOR_TEMP == 4
TOGGLE_LED == 5
SLEEP == 6
\* ASCII codes of the bytes the code compares against.
CR == 13
CH_0 == 48
CH_9 == 57
CH_q == 113
CH_Q == 81
CH_y == 121
CH_Y == 89
CH_n == 110
CH_N == 78
CH_PLUS == 43
CH_MINUS == 45
CH_STAR == 42
CH_SLASH == 47
\* A byte that no comparison of the code matches ('x')
CH_x == CH_y - 1

(***************************************************************************)
(* Tasks created in main(), with their priorities.                         *)
(***************************************************************************)
WRITER == "UART_WRITE_TASK"
MENU == "MAIN_MENU_TASK"
CLOCK == "CLOCK_TASK"
GAME == "GAME_TASK"
CALC == "CALCULATOR_TASK"
TEMP == "TEMP_MONITOR_TASK"

Tasks == {WRITER, MENU, CLOCK, GAME, CALC, TEMP}
\* The tasks that call xReceiveUartMsg.
Readers == {MENU, CLOCK, GAME, CALC}
\* The tasks that block in xTaskNotifyWait.
Waiters == {MENU, CLOCK, GAME, CALC, TEMP}

\* Every task created at one priority: no producer is preempted by the writer
PriorityFlat(t) == 1

Priority(t) == IF t = WRITER THEN 2 ELSE 1

(***************************************************************************)
(* The user types lines, each ended by the return key; typing may stop     *)
(* after any prefix of a line.  A line is a sequence of ASCII codes.       *)
(***************************************************************************)
Digit(d) == <<CH_0 + d>>

IsPrefix(s, l) == Len(s) <= Len(l) /\ SubSeq(l, 1, Len(s)) = s

Typable(L, s) == \E l \in L : IsPrefix(s, l)

BytesOf(L) == UNION { { l[i] : i \in DOMAIN l } : l \in L } \cup {CR}

VARIABLES
  tick,              \* xTaskGetTickCount()
  rx,                \* USART2 receive data register: <<>> or <<byte>> (RXNE set)
  typed,             \* bytes the user has typed since the last return key
  rxneIE,            \* USART2 RXNE interrupt enabled (USART_ITConfig / NVIC_EnableIRQ)
  xGoToSleep,
  xShowTemps,
  xRunTempMonitor,
  writers,           \* history, per flag: the execution contexts that have assigned it
  xYieldPending,     \* taskYIELD() called by USART2_IRQHandler, no task having run since
  notified,          \* per task: a notification is pending
  pc,                \* per task: position in its task function
  rd,                \* per reader: position in xReceiveUartMsg
  xCurrentTickCount, \* per reader: tick count at the start of the call
  cUartMsg,          \* per reader: the message buffer
  ucDataByte,        \* per reader: the last byte received in this call
  xQuitCurrentApp,   \* per reader
  xReadSuccess,      \* per reader
  termInTime,        \* per reader, history: the return key was received in this
                     \* call while the tick count was below the deadline
  uartQueue,         \* xUartWriteQueue
  pendingOut,        \* messages enqueued and not yet completely transmitted
  msgBuffer,         \* per producer: the text its sprintf buffer holds, NoMsg when
                     \* the buffer is zeroed or out of scope
  pcData,            \* the UART write task's current message
  txPos,             \* bytes of pcData already sent
  console,           \* what the console device has received since a message began
  alarmOut,          \* history: the messages RTC_Alarm_IRQHandler sent in its last run
  pxLedToggleTimer,
  timerState,
  led,
  rtcTime,           \* the time last written to the RTC: <<hours, minutes, seconds>>
  rtcDate,           \* the date last written: <<date, month, year, weekday>>
  rtcAlarm,          \* Alarm A: NoAlarm, or the <<hours, minutes, seconds>> it is enabled for
  xAlarmAConfig,     \* vSetAlarm: the fields entered so far
  xTimeConfig,       \* vSetDateAndTime: the time fields entered so far
  xDateConfig,       \* vSetDateAndTime: the date fields entered so far
  ucSelectedNum,
  lUserGuess,
  ulNumOfGuesses,
  lFirstNum,
  lSecondNum,
  fHighestTemp,
  fLowestTemp,
  fCurrentTemp

envVars == <<tick, rx, typed>>
flagVars == <<xGoToSleep, xShowTemps, xRunTempMonitor, writers, xYieldPending>>
rdVars == <<rd, xCurrentTickCount, cUartMsg, ucDataByte, xQuitCurrentApp, xReadSuccess,
           termInTime>>
outVars == <<uartQueue, pendingOut, msgBuffer>>
txVars == <<pcData, txPos, console, alarmOut>>
ledVars == <<pxLedToggleTimer, timerState, led>>
gameVars == <<ucSelectedNum, lUserGuess, ulNumOfGuesses>>
calcVars == <<lFirstNum, lSecondNum>>
rtcVars == <<rtcTime, rtcDate, rtcAlarm, xAlarmAConfig, xTimeConfig, xDateConfig>>
tempVars == <<fHighestTemp, fLowestTemp, fCurrentTemp>>
appVars == <<rtcVars, gameVars, calcVars, tempVars>>

vars == <<tick, rx, typed, rxneIE, xGoToSleep, xShowTemps, xRunTempMonitor,
          writers, xYieldPending, notified, pc, rd, xCurrentTickCount, cUartMsg, ucDataByte,
          xQuitCurrentApp, xReadSuccess, termInTime, uartQueue, pendingOut,
          msgBuffer,
          pcData, txPos,
          console, alarmOut, pxLedToggleTimer, timerState, led, rtcTime, rtcDate,
          rtcAlarm, xAlarmAConfig, xTimeConfig, xDateConfig, ucSelectedNum,
          lUserGuess, ulNumOfGuesses, lFirstNum, lSecondNum, fHighestTemp,
          fLowestTemp, fCurrentTemp>>

(***************************************************************************)
(* Message texts.                                                          *)
(***************************************************************************)
\* A message: its text and, where the text embeds a number, that number.
Msg(text) == [text |-> text, val |-> 0]
MsgVal(text, v) == [text |-> text, val |-> v]

NoMsg == Msg("none")
NoAlarm == <<>>
MsgMenu == Msg("pcMenu")
MsgTimeout == Msg("User input timeout")
MsgUnrecognized == Msg("Error: Unrecognized option selected")
MsgAlarm == Msg("The alarm was triggered")
MsgStillAsleep == Msg("Still in sleep mode")
MsgWentToSleep == Msg("Went to sleep")
MsgWokeUp == Msg("Woke up from sleep mode")
MsgTempMenu == Msg("This is a temperature monitoring sub-application")
MsgTempStarted == Msg("Temperature monitor started")
MsgTempNotStarted == Msg("Temperature monitor has not been started yet")
MsgTempStopped == Msg("Temperature monitor stopped")
MsgTempCurrent == Msg("Current Temp Recorded")
MsgTempHighest == Msg("Highest Temp Recorded")
MsgTempLowest == Msg("Lowest Temp Recorded")
MsgLedPrompt == Msg("Toggle the LED?")
MsgClockMenu == Msg("This is a clock sub-application")
MsgDateTime == Msg("Time: Date:")
MsgAlarmHour == Msg("Enter the hour of the Alarm")
MsgAlarmMinute == Msg("Enter the minute of the Alarm")
MsgAlarmSecond == Msg("Enter the second of the Alarm")
MsgTimeHour == Msg("Configuring the time, Enter the hour in 24 hour format")
MsgTimeMinute == Msg("Enter the minute")
MsgTimeSecond == Msg("Enter the second")
MsgDateDay == Msg("Configuring the date, Enter the day of the month")
MsgDateMonth == Msg("Enter the month")
MsgDateYear == Msg("Enter the year")
MsgDateWeekDay == Msg("Enter the day of the week")
MsgDateError == Msg("RTC set date error")
MsgGamePrompt == Msg("This is a game sub-application")
MsgGuessAgain == Msg("Guess a number between 0 to 25")
MsgTooHigh == Msg("You guessed too high")
MsgTooLow == Msg("You guessed too low")
MsgCalcFirst == Msg("This is a calculator sub-application")
MsgCalcSecond == Msg("Enter the second integer")
MsgCalcOperator == Msg("Enter the operator")
MsgBadOperator == Msg("Error: Unrecognized mathematical operator selected")
MsgCorrect(n) == MsgVal("You guessed the correct number! It took you %ld attempt(s)", n)
MsgCalculated(n) == MsgVal("The calculated integer is %ld", n)

(***************************************************************************)
(* Scheduling: an enabled interrupt runs before any task; a ready task of  *)
(* higher priority runs before any task of lower priority; tasks of equal  *)
(* priority are time-sliced.                                               *)
(***************************************************************************)
\* An integer division by zero either traps (the fault handler never returns)
\* or yields a quotient, as the core is configured.
Halted == pc[CALC] = "fault"

\* The three shared flags (lines 69-75), and an assignment to flag f made by
\* the task or interrupt handler c
Flags == {"xGoToSleep", "xShowTemps", "xRunTempMonitor"}

Wrote(f, c) == [writers EXCEPT ![f] = @ \cup {c}]

IrqPending == ~Halted /\ rxneIE /\ rx # <<>>

WriterReady == pc[WRITER] = "send" \/ uartQueue # <<>>

Runnable(t) ==
  /\ ~Halted
  /\ ~IrqPending
  /\ Priority(t) < Priority(WRITER) => ~WriterReady

(***************************************************************************)
(* Task notifications: xTaskNotify(.., 0, eNoAction) marks a notification  *)
(* pending; xTaskNotifyWait(0, 0, NULL, portMAX_DELAY) returns once one is *)
(* pending and consumes it.                                                *)
(***************************************************************************)
\* A notification that is not recorded unless the task is already waiting
TaskNotifyWaiting(n, t) ==
  IF pc[t] \in (IF t = MENU THEN {"mm_wait", "sl_wait"} ELSE {"wait"})
    THEN [n EXCEPT ![t] = TRUE] ELSE n

TaskNotify(n, t) == [n EXCEPT ![t] = TRUE]

TaskNotifyTaken(n, t) == [n EXCEPT ![t] = FALSE]

(***************************************************************************)
(* The queue holds pointers.  A message built by sprintf lies in a buffer  *)
(* of its producer: cTempStatsMsg of the Temperature Monitor task,         *)
(* cDateTimeMsg of vReadRtcDateTime (a stack buffer, gone when the         *)
(* function has returned), cUartMsg of the game and of the calculator (the *)
(* buffer the next line is read into).  The other messages are string      *)
(* literals.                                                               *)
(***************************************************************************)
Producers == {TEMP, CLOCK, GAME, CALC}
NoBuffer == "literal"

BufferOf(m) ==
  CASE m.text \in {MsgTempCurrent.text, MsgTempHighest.text, MsgTempLowest.text} -> TEMP
    [] m.text = MsgDateTime.text -> CLOCK
    [] m.text = MsgCorrect(0).text -> GAME
    [] m.text = MsgCalculated(0).text -> CALC
    [] OTHER -> NoBuffer

\* The buffers after sprintf has written m, the buffers in gone being zeroed
\* or out of scope
Stored(m, gone) ==
  [t \in Producers |-> IF t = BufferOf(m) THEN m
                       ELSE IF t \in gone THEN NoMsg ELSE msgBuffer[t]]

(***************************************************************************)
(* xQueueSend(xUartWriteQueue, &m, portMAX_DELAY): blocks while the queue  *)
(* is full, then appends.                                                  *)
(***************************************************************************)
\* A send that returns without posting, as with a zero block time on a queue
\* taken to be full
QueueSendDrop(m) ==
  /\ pendingOut' = Append(pendingOut, m)
  /\ msgBuffer' = Stored(m, {})
  /\ UNCHANGED uartQueue

\* A send by the task whose buffers in gone are then zeroed or left behind
QueueSendThen(m, gone) ==
  /\ Len(uartQueue) < QUEUE_LENGTH
  /\ uartQueue' = Append(uartQueue, m)
  /\ pendingOut' = Append(pendingOut, m)
  /\ msgBuffer' = Stored(m, gone)

QueueSend(m) ==
  /\ Len(uartQueue) < QUEUE_LENGTH
  /\ uartQueue' = Append(uartQueue, m)
  /\ pendingOut' = Append(pendingOut, m)
  /\ msgBuffer' = Stored(m, {})

(***************************************************************************)
(* The console device.  console holds the bytes <<message, index>> it has  *)
(* received since the oldest message that is still incomplete began.       *)
(***************************************************************************)
Trim(c) ==
  IF \A x \in c : \A k \in 1..MsgBytes : <<x[1], k>> \in c THEN {} ELSE c

\* vSendUartMsg, one byte of it
SendUartByte(c, m, k) == Trim(c \cup {<<m, k>>})

\* vSendUartMsg run to completion without preemption
SendUartMsg(c, m) == Trim(c \cup {<<m, k>> : k \in 1..MsgBytes})

(***************************************************************************)
(* The environment: the tick interrupt and the user at the terminal.       *)
(***************************************************************************)
Tick ==
  /\ tick' = (tick + 1) % TickMod
  /\ UNCHANGED <<rx, typed, rxneIE, flagVars, notified, pc, rdVars, outVars,
                 txVars, ledVars, appVars>>

\* A byte of one of the lines L arrives at USART2.  The user types the next
\* byte once the previous one was taken from the data register, so that no
\* byte is lost to an overrun.
UsartRx(L) ==
  /\ rx = <<>>
  /\ \E b \in BytesOf(L) :
       /\ b # CR => Typable(L, Append(typed, b))
       /\ typed' = IF b = CR THEN <<>> ELSE Append(typed, b)
       /\ rx' = <<b>>
  /\ UNCHANGED <<tick, rxneIE, flagVars, notified, pc, rdVars, outVars, txVars,
                 ledVars, appVars>>

(***************************************************************************)
(* vUartWriteTaskFunction                                                  *)
(***************************************************************************)
\* A receive that leaves the item on the queue (xQueuePeek)
QueuePeek ==
  /\ uartQueue # <<>>
  /\ pcData' = Head(uartQueue)
  /\ UNCHANGED uartQueue

\* xQueueReceive(xUartWriteQueue, &pcData, portMAX_DELAY)
QueueReceive ==
  /\ uartQueue # <<>>
  /\ pcData' = Head(uartQueue)
  /\ uartQueue' = Tail(uartQueue)

W_Receive ==
  /\ pc[WRITER] = "recv"
  /\ Runnable(WRITER)
  /\ QueueReceive
  /\ txPos' = 0
  /\ pc' = [pc EXCEPT ![WRITER] = "send"]
  /\ UNCHANGED <<envVars, rxneIE, xGoToSleep, xShowTemps, xRunTempMonitor, writers, notified, rdVars, pendingOut,
                 msgBuffer, console, alarmOut, ledVars, appVars>>
  /\ xYieldPending' = FALSE

W_SendByte ==
  /\ pc[WRITER] = "send"
  /\ Runnable(WRITER)
  /\ console' = SendUartByte(console, pcData, txPos + 1)
  /\ IF txPos + 1 < MsgBytes
       THEN /\ txPos' = txPos + 1
            /\ UNCHANGED <<pc, pcData, pendingOut>>
       ELSE /\ txPos' = 0
            /\ pcData' = NoMsg
            /\ pendingOut' = IF pendingOut = <<>> THEN <<>> ELSE Tail(pendingOut)
            /\ pc' = [pc EXCEPT ![WRITER] = "recv"]
  /\ UNCHANGED <<envVars, rxneIE, xGoToSleep, xShowTemps, xRunTempMonitor, writers, notified, rdVars, uartQueue,
                 msgBuffer, alarmOut, ledVars, appVars>>
  /\ xYieldPending' = FALSE

(***************************************************************************)
(* xReceiveUartMsg                                                         *)
(***************************************************************************)
\* xTaskGetTickCount() < ( xCurrentTickCount + pdMS_TO_TICKS(30000) )
BeforeDeadline(now, start) == now < (start + TimeoutTicks) % TickMod

\* The call sites, and where each call returns to.
ReadSites ==
  { "mm_read", "tm_read", "led_read", "ck_read", "al_h_read", "al_m_read",
    "al_s_read", "dt_h_read", "dt_m_read", "dt_s_read", "dt_day_read",
    "dt_mon_read", "dt_yr_read", "dt_wd_read", "gm_read", "ca_1_read",
    "ca_2_read", "ca_op_read" }

AfterRead(l) ==
  CASE l = "mm_read" -> "mm_got"
    [] l = "tm_read" -> "tm_got"
    [] l = "led_read" -> "led_got"
    [] l = "ck_read" -> "ck_got"
    [] l = "al_h_read" -> "al_h_got"
    [] l = "al_m_read" -> "al_m_got"
    [] l = "al_s_read" -> "al_s_got"
    [] l = "dt_h_read" -> "dt_h_got"
    [] l = "dt_m_read" -> "dt_m_got"
    [] l = "dt_s_read" -> "dt_s_got"
    [] l = "dt_day_read" -> "dt_day_got"
    [] l = "dt_mon_read" -> "dt_mon_got"
    [] l = "dt_yr_read" -> "dt_yr_got"
    [] l = "dt_wd_read" -> "dt_wd_got"
    [] l = "gm_read" -> "gm_got"
    [] l = "ca_1_read" -> "ca_1_got"
    [] l = "ca_2_read" -> "ca_2_got"
    [] l = "ca_op_read" -> "ca_op_got"

\* Entry: the caller has zeroed its buffer; the locals are initialised, the
\* tick count is sampled and the loop condition is tested for the first time.
RdEnter(t) ==
  /\ pc[t] \in ReadSites
  /\ rd[t] = "idle"
  /\ Runnable(t)
  /\ pc' = [pc EXCEPT ![t] = AfterRead(pc[t])]
  /\ cUartMsg' = [cUartMsg EXCEPT ![t] = <<>>]
  /\ ucDataByte' = [ucDataByte EXCEPT ![t] = 0]
  /\ xCurrentTickCount' = [xCurrentTickCount EXCEPT ![t] = tick]
  /\ rd' = [rd EXCEPT ![t] = IF BeforeDeadline(tick, tick) THEN "poll" ELSE "final"]
  /\ termInTime' = [termInTime EXCEPT ![t] = FALSE]
  /\ UNCHANGED <<envVars, rxneIE, xGoToSleep, xShowTemps, xRunTempMonitor, writers, notified, xQuitCurrentApp,
                 xReadSuccess, outVars, txVars, ledVars, appVars>>
  /\ xYieldPending' = FALSE

\* A test for the lower-case letter alone
QuitByteLower(prev) == prev = CH_q

\* The byte before the return key asks to quit
QuitByte(prev) == prev = CH_q \/ prev = CH_Q

\* One pass of the loop body: wait for RXNE, take the byte, store it or
\* break on the return key, then test the loop condition again.
RdPoll(t) ==
  /\ rd[t] = "poll"
  /\ Runnable(t)
  /\ rx # <<>>
  /\ rx[1] # CR =>
       \/ Len(cUartMsg[t]) < MaxLine
       \/ Append(cUartMsg[t], rx[1]) = typed
  /\ rx' = <<>>
  /\ ucDataByte' = [ucDataByte EXCEPT ![t] = rx[1]]
  /\ IF rx[1] # CR
       THEN /\ cUartMsg' = [cUartMsg EXCEPT ![t] = Append(@, rx[1])]
            /\ rd' = [rd EXCEPT ![t] =
                        IF BeforeDeadline(tick, xCurrentTickCount[t])
                          THEN "poll" ELSE "final"]
            /\ UNCHANGED <<xQuitCurrentApp, termInTime>>
       ELSE /\ termInTime' = [termInTime EXCEPT ![t] =
                                BeforeDeadline(tick, xCurrentTickCount[t])]
            /\ xQuitCurrentApp' =
                 IF QuitByte(ucDataByte[t])
                   THEN [xQuitCurrentApp EXCEPT ![t] = TRUE]
                   ELSE xQuitCurrentApp
            /\ rd' = [rd EXCEPT ![t] = "final"]
            /\ UNCHANGED cUartMsg
  /\ UNCHANGED <<tick, typed, rxneIE, xGoToSleep, xShowTemps, xRunTempMonitor, writers, notified, pc, xCurrentTickCount,
                 xReadSuccess, outVars, txVars, ledVars, appVars>>
  /\ xYieldPending' = FALSE

\* A return of pdFALSE that posts no message
RdFinalSilent(t) ==
  /\ rd[t] = "final"
  /\ Runnable(t)
  /\ rd' = [rd EXCEPT ![t] = "idle"]
  /\ IF BeforeDeadline(tick, xCurrentTickCount[t])
       THEN /\ xReadSuccess' = [xReadSuccess EXCEPT ![t] = TRUE]
            /\ UNCHANGED outVars
       ELSE /\ UNCHANGED outVars
            /\ xReadSuccess' = [xReadSuccess EXCEPT ![t] = FALSE]
  /\ xCurrentTickCount' = [xCurrentTickCount EXCEPT ![t] = 0]
  /\ ucDataByte' = [ucDataByte EXCEPT ![t] = 0]
  /\ termInTime' = [termInTime EXCEPT ![t] = FALSE]
  /\ UNCHANGED <<envVars, rxneIE, xGoToSleep, xShowTemps, xRunTempMonitor, writers, notified, pc, cUartMsg,
                 xQuitCurrentApp, txVars, ledVars, appVars>>
  /\ xYieldPending' = FALSE

\* The test after the loop: return pdTRUE, or post the timeout message and
\* return pdFALSE.  The locals of the call end with it.
RdFinal(t) ==
  /\ rd[t] = "final"
  /\ Runnable(t)
  /\ rd' = [rd EXCEPT ![t] = "idle"]
  /\ IF BeforeDeadline(tick, xCurrentTickCount[t])
       THEN /\ xReadSuccess' = [xReadSuccess EXCEPT ![t] = TRUE]
            /\ UNCHANGED outVars
       ELSE /\ QueueSend(MsgTimeout)
            /\ xReadSuccess' = [xReadSuccess EXCEPT ![t] = FALSE]
  /\ xCurrentTickCount' = [xCurrentTickCount EXCEPT ![t] = 0]
  /\ ucDataByte' = [ucDataByte EXCEPT ![t] = 0]
  /\ termInTime' = [termInTime EXCEPT ![t] = FALSE]
  /\ UNCHANGED <<envVars, rxneIE, xGoToSleep, xShowTemps, xRunTempMonitor, writers, notified, pc, cUartMsg,
                 xQuitCurrentApp, txVars, ledVars, appVars>>
  /\ xYieldPending' = FALSE

\* The caller resumes once the call has returned.  Every caller zeroes its
\* buffer before the next call; the model zeroes it in the step that uses
\* what was received.
Returned(t) == rd[t] = "idle" /\ Runnable(t)

(***************************************************************************)
(* Interrupt handlers                                                      *)
(***************************************************************************)
\* USART2_IRQHandler: runs when the RXNE interrupt is enabled and a byte is
\* in the data register; clearing the pending bit clears RXNE.  The pointer
\* handed to xTaskNotifyFromISR is NULL, so the call reports nothing, and the
\* test that decides on taskYIELD() reads the word at address 0: a read
\* through a null pointer, whose outcome is either.
\* A handler that clears the flag and notifies nobody
USART2_IRQHandlerMute ==
  /\ IrqPending
  /\ rx' = <<>>
  /\ xGoToSleep' = FALSE
  /\ writers' = Wrote("xGoToSleep", "USART2_IRQHandler")
  /\ xYieldPending' \in BOOLEAN
  /\ UNCHANGED <<tick, typed, rxneIE, xShowTemps, xRunTempMonitor, notified, pc,
                 rdVars, outVars, txVars, ledVars, appVars>>

USART2_IRQHandler ==
  /\ IrqPending
  /\ rx' = <<>>
  /\ xGoToSleep' = FALSE
  /\ writers' = Wrote("xGoToSleep", "USART2_IRQHandler")
  /\ xYieldPending' \in BOOLEAN
  /\ notified' = TaskNotify(notified, MENU)
  /\ UNCHANGED <<tick, typed, rxneIE, xShowTemps, xRunTempMonitor, pc, rdVars,
                 outVars, txVars, ledVars, appVars>>

\* An alarm handler that wakes the application as the receive handler does
RTC_Alarm_IRQHandlerWaking ==
  /\ ~Halted
  /\ rtcAlarm # NoAlarm
  /\ console' = SendUartMsg(console, MsgAlarm)
  /\ alarmOut' = <<MsgAlarm>>
  /\ xGoToSleep' = FALSE
  /\ writers' = Wrote("xGoToSleep", "RTC_Alarm_IRQHandler")
  /\ UNCHANGED xYieldPending
  /\ notified' = TaskNotify(notified, MENU)
  /\ UNCHANGED <<envVars, rxneIE, xShowTemps, xRunTempMonitor, pc, rdVars,
                 outVars, pcData, txPos, ledVars, appVars>>

\* RTC_Alarm_IRQHandler: runs when Alarm A fires, whatever task is running.
RTC_Alarm_IRQHandler ==
  /\ ~Halted
  /\ rtcAlarm # NoAlarm
  /\ console' =
       IF xGoToSleep
         THEN SendUartMsg(SendUartMsg(console, MsgAlarm), MsgStillAsleep)
         ELSE SendUartMsg(console, MsgAlarm)
  /\ alarmOut' = IF xGoToSleep THEN <<MsgAlarm, MsgStillAsleep>> ELSE <<MsgAlarm>>
  /\ UNCHANGED <<envVars, rxneIE, flagVars, notified, pc, rdVars, outVars,
                 pcData, txPos, ledVars, appVars>>

(***************************************************************************)
(* The LED toggle timer                                                    *)
(***************************************************************************)
\* vLedToggle, called by the timer service task when the timer expires
vLedToggle ==
  /\ ~Halted
  /\ timerState = "active"
  /\ led' = ~led
  /\ UNCHANGED <<envVars, rxneIE, xGoToSleep, xShowTemps, xRunTempMonitor, writers, notified, pc, rdVars, outVars,
                 txVars, pxLedToggleTimer, timerState, appVars>>
  /\ xYieldPending' = FALSE

\* xTimerStart on the handle: a timer that was deleted is freed memory, and
\* starting it may or may not bring a timer back.
TimerStartOutcomes(st) == IF st = "deleted" THEN {"deleted", "active"} ELSE {"active"}

\* vLedToggleEnable: <<handle, timer state>> it may leave
LedToggleEnable(h, st) ==
  IF h = "NULL"
    THEN { <<"LED-TIMER", "active">> }
    ELSE { <<h, o>> : o \in TimerStartOutcomes(st) }

\* vLedToggleDisable: <<timer state, led>> it leaves
LedToggleDisable(h, st, l) ==
  IF h # "NULL"
    THEN <<IF st = "deleted" THEN "deleted" ELSE "dormant", FALSE>>
    ELSE <<st, l>>

(***************************************************************************)
(* vMainMenuTaskFunction                                                   *)
(***************************************************************************)
\* cUartMsg[0] of a zeroed buffer that received the bytes b
FirstByte(b) == IF b = <<>> THEN 0 ELSE b[1]

\* (uint8_t)(cUartMsg[0] - 48)
OptionSelected(b) == (FirstByte(b) - CH_0) % 256

\* A switch whose cases are off by one
AppTaskShifted(sel) ==
  CASE sel = RUN_CLOCK -> {GAME}
    [] sel = RUN_GAME -> {CALC}
    [] sel = RUN_CALCULATOR -> {CLOCK}
    [] OTHER -> {}

\* The task notified for a selection of the switch, if any
AppTask(sel) ==
  CASE sel = RUN_CLOCK -> {CLOCK}
    [] sel = RUN_GAME -> {GAME}
    [] sel = RUN_CALCULATOR -> {CALC}
    [] OTHER -> {}

\* A switch whose default label falls into the case of the LED
InlineEntryFallThrough(sel) ==
  CASE sel = MONITOR_TEMP -> "tm_prompt"
    [] sel = SLEEP -> "sl_arm"
    [] sel \in {RUN_CLOCK, RUN_GAME, RUN_CALCULATOR} -> "none"
    [] OTHER -> "led_prompt"

\* The routine run inline for a selection of the switch, if any
InlineEntry(sel) ==
  CASE sel = MONITOR_TEMP -> "tm_prompt"
    [] sel = TOGGLE_LED -> "led_prompt"
    [] sel = SLEEP -> "sl_arm"
    [] OTHER -> "none"

NotifyAll(n, ts) == [t \in DOMAIN n |-> IF t \in ts THEN TRUE ELSE n[t]]

\* Top of the loop: reset the flags and post the menu.
MM_ShowMenu ==
  /\ pc[MENU] = "mm_menu"
  /\ Runnable(MENU)
  /\ xQuitCurrentApp' = [xQuitCurrentApp EXCEPT ![MENU] = FALSE]
  /\ xReadSuccess' = [xReadSuccess EXCEPT ![MENU] = FALSE]
  /\ QueueSend(MsgMenu)
  /\ pc' = [pc EXCEPT ![MENU] = "mm_read"]
  /\ UNCHANGED <<envVars, rxneIE, xGoToSleep, xShowTemps, xRunTempMonitor, writers, notified, rd, termInTime, xCurrentTickCount,
                 cUartMsg, ucDataByte, txVars, ledVars, appVars>>
  /\ xYieldPending' = FALSE

\* After the read: the switch on ucAppSelected.
MM_Dispatch ==
  /\ pc[MENU] = "mm_got"
  /\ Returned(MENU)
  /\ LET sel == OptionSelected(cUartMsg[MENU])
         go == xReadSuccess[MENU] /\ ~xQuitCurrentApp[MENU]
     IN  /\ notified' = IF go THEN NotifyAll(notified, AppTask(sel)) ELSE notified
         /\ pc' = [pc EXCEPT ![MENU] =
                     IF ~go THEN "mm_menu"
                     ELSE IF AppTask(sel) # {} THEN "mm_wait"
                     ELSE IF InlineEntry(sel) # "none" THEN InlineEntry(sel)
                     ELSE "mm_menu"]
         /\ IF go /\ AppTask(sel) = {} /\ InlineEntry(sel) = "none"
              THEN QueueSend(MsgUnrecognized)
              ELSE UNCHANGED outVars
  /\ cUartMsg' = [cUartMsg EXCEPT ![MENU] = <<>>]
  /\ UNCHANGED <<envVars, rxneIE, xGoToSleep, xShowTemps, xRunTempMonitor, writers, rd, termInTime, xCurrentTickCount, ucDataByte,
                 xQuitCurrentApp, xReadSuccess, txVars, ledVars, appVars>>
  /\ xYieldPending' = FALSE

\* xTaskNotifyWait after notifying a sub-application
MM_Wait ==
  /\ pc[MENU] = "mm_wait"
  /\ Runnable(MENU)
  /\ notified[MENU]
  /\ notified' = TaskNotifyTaken(notified, MENU)
  /\ pc' = [pc EXCEPT ![MENU] = "mm_menu"]
  /\ UNCHANGED <<envVars, rxneIE, xGoToSleep, xShowTemps, xRunTempMonitor, writers, rdVars, outVars, txVars, ledVars,
                 appVars>>
  /\ xYieldPending' = FALSE

(***************************************************************************)
(* vManageTempMonitor (runs in the Main Menu task)                         *)
(***************************************************************************)
TM_Prompt ==
  /\ pc[MENU] = "tm_prompt"
  /\ Runnable(MENU)
  /\ xQuitCurrentApp' = [xQuitCurrentApp EXCEPT ![MENU] = FALSE]
  /\ xReadSuccess' = [xReadSuccess EXCEPT ![MENU] = FALSE]
  /\ QueueSend(MsgTempMenu)
  /\ pc' = [pc EXCEPT ![MENU] = "tm_read"]
  /\ UNCHANGED <<envVars, rxneIE, xGoToSleep, xShowTemps, xRunTempMonitor, writers, notified, rd, termInTime, xCurrentTickCount,
                 cUartMsg, ucDataByte, txVars, ledVars, appVars>>
  /\ xYieldPending' = FALSE

TM_Select ==
  /\ pc[MENU] = "tm_got"
  /\ Returned(MENU)
  /\ LET sel == OptionSelected(cUartMsg[MENU])
         go == xReadSuccess[MENU] /\ ~xQuitCurrentApp[MENU]
     IN  IF ~go
           THEN /\ pc' = [pc EXCEPT ![MENU] = "mm_menu"]
                /\ UNCHANGED <<notified, xGoToSleep, xShowTemps, xRunTempMonitor, writers, outVars>>
           ELSE CASE sel = 1 ->
                       /\ notified' = TaskNotify(notified, TEMP)
                       /\ QueueSend(MsgTempStarted)
                       /\ pc' = [pc EXCEPT ![MENU] = "tm_delay"]
                       /\ UNCHANGED <<xGoToSleep, xShowTemps, xRunTempMonitor, writers>>
                  [] sel = 2 /\ ~xRunTempMonitor ->
                       /\ QueueSend(MsgTempNotStarted)
                       /\ pc' = [pc EXCEPT ![MENU] = "mm_menu"]
                       /\ UNCHANGED <<notified, xGoToSleep, xShowTemps, xRunTempMonitor, writers>>
                  [] sel = 2 /\ xRunTempMonitor ->
                       /\ xShowTemps' = TRUE
                       /\ writers' = Wrote("xShowTemps", MENU)
                       /\ pc' = [pc EXCEPT ![MENU] = "tm_delay"]
                       /\ UNCHANGED <<notified, xGoToSleep, xRunTempMonitor, outVars>>
                  [] sel = 3 ->
                       /\ xRunTempMonitor' = FALSE
                       /\ writers' = Wrote("xRunTempMonitor", MENU)
                       /\ QueueSend(MsgTempStopped)
                       /\ pc' = [pc EXCEPT ![MENU] = "mm_menu"]
                       /\ UNCHANGED <<notified, xGoToSleep, xShowTemps>>
                  [] OTHER ->
                       /\ QueueSend(MsgUnrecognized)
                       /\ pc' = [pc EXCEPT ![MENU] = "mm_menu"]
                       /\ UNCHANGED <<notified, xGoToSleep, xShowTemps, xRunTempMonitor, writers>>
  /\ cUartMsg' = [cUartMsg EXCEPT ![MENU] = <<>>]
  /\ UNCHANGED <<envVars, rxneIE, rd, termInTime, xCurrentTickCount, ucDataByte,
                 xQuitCurrentApp, xReadSuccess, txVars, ledVars, appVars>>
  /\ xYieldPending' = FALSE

\* vTaskDelay(pdMS_TO_TICKS(500)) has elapsed
TM_DelayDone ==
  /\ pc[MENU] = "tm_delay"
  /\ Runnable(MENU)
  /\ pc' = [pc EXCEPT ![MENU] = "mm_menu"]
  /\ UNCHANGED <<envVars, rxneIE, xGoToSleep, xShowTemps, xRunTempMonitor, writers, notified, rdVars, outVars, txVars,
                 ledVars, appVars>>
  /\ xYieldPending' = FALSE

(***************************************************************************)
(* vManageLedToggle (runs in the Main Menu task)                           *)
(***************************************************************************)
LED_Prompt ==
  /\ pc[MENU] = "led_prompt"
  /\ Runnable(MENU)
  /\ xQuitCurrentApp' = [xQuitCurrentApp EXCEPT ![MENU] = FALSE]
  /\ xReadSuccess' = [xReadSuccess EXCEPT ![MENU] = FALSE]
  /\ QueueSend(MsgLedPrompt)
  /\ pc' = [pc EXCEPT ![MENU] = "led_read"]
  /\ UNCHANGED <<envVars, rxneIE, xGoToSleep, xShowTemps, xRunTempMonitor, writers, notified, rd, termInTime, xCurrentTickCount,
                 cUartMsg, ucDataByte, txVars, ledVars, appVars>>
  /\ xYieldPending' = FALSE

LED_Select ==
  /\ pc[MENU] = "led_got"
  /\ Returned(MENU)
  /\ LET c == FirstByte(cUartMsg[MENU])
         go == xReadSuccess[MENU] /\ ~xQuitCurrentApp[MENU]
     IN  IF go /\ (c = CH_y \/ c = CH_Y)
           THEN /\ \E o \in LedToggleEnable(pxLedToggleTimer, timerState) :
                     /\ pxLedToggleTimer' = o[1]
                     /\ timerState' = o[2]
                /\ UNCHANGED led
           ELSE IF go /\ (c = CH_n \/ c = CH_N)
             THEN /\ timerState' = LedToggleDisable(pxLedToggleTimer, timerState, led)[1]
                  /\ led' = LedToggleDisable(pxLedToggleTimer, timerState, led)[2]
                  /\ UNCHANGED pxLedToggleTimer
             ELSE UNCHANGED ledVars
  /\ pc' = [pc EXCEPT ![MENU] = "mm_menu"]
  /\ cUartMsg' = [cUartMsg EXCEPT ![MENU] = <<>>]
  /\ UNCHANGED <<envVars, rxneIE, xGoToSleep, xShowTemps, xRunTempMonitor, writers, notified, rd, termInTime, xCurrentTickCount,
                 ucDataByte, xQuitCurrentApp, xReadSuccess, outVars, txVars,
                 appVars>>
  /\ xYieldPending' = FALSE

(***************************************************************************)
(* vManageAppSleep (runs in the Main Menu task)                            *)
(***************************************************************************)
\* Stop and delete the LED timer if there is a handle, stop the temperature
\* monitor, enable the USART2 RXNE interrupt.
SL_Arm ==
  /\ pc[MENU] = "sl_arm"
  /\ Runnable(MENU)
  /\ IF pxLedToggleTimer # "NULL"
       THEN /\ timerState' = "deleted"
            /\ led' = FALSE
       ELSE UNCHANGED <<timerState, led>>
  /\ xRunTempMonitor' = FALSE
  /\ writers' = Wrote("xRunTempMonitor", MENU)
  /\ rxneIE' = TRUE
  /\ pc' = [pc EXCEPT ![MENU] = "sl_set"]
  /\ UNCHANGED <<envVars, xGoToSleep, xShowTemps, notified, rdVars, outVars,
                 txVars, pxLedToggleTimer, appVars>>
  /\ xYieldPending' = FALSE

\* Set xGoToSleep and post the message.
SL_Set ==
  /\ pc[MENU] = "sl_set"
  /\ Runnable(MENU)
  /\ xGoToSleep' = TRUE
  /\ writers' = Wrote("xGoToSleep", MENU)
  /\ QueueSend(MsgWentToSleep)
  /\ pc' = [pc EXCEPT ![MENU] = "sl_wait"]
  /\ UNCHANGED <<envVars, rxneIE, xShowTemps, xRunTempMonitor, notified, rdVars,
                 txVars, ledVars, appVars>>
  /\ xYieldPending' = FALSE

\* xTaskNotifyWait returns; post the wake-up message.
SL_Wake ==
  /\ pc[MENU] = "sl_wait"
  /\ Runnable(MENU)
  /\ notified[MENU]
  /\ notified' = TaskNotifyTaken(notified, MENU)
  /\ QueueSend(MsgWokeUp)
  /\ pc' = [pc EXCEPT ![MENU] = "sl_disarm"]
  /\ UNCHANGED <<envVars, rxneIE, xGoToSleep, xShowTemps, xRunTempMonitor,
                 writers, rdVars, txVars, ledVars, appVars>>
  /\ xYieldPending' = FALSE

\* Disable the USART2 RXNE interrupt and return to the menu loop.
SL_Disarm ==
  /\ pc[MENU] = "sl_disarm"
  /\ Runnable(MENU)
  /\ rxneIE' = FALSE
  /\ pc' = [pc EXCEPT ![MENU] = "mm_menu"]
  /\ UNCHANGED <<envVars, xGoToSleep, xShowTemps, xRunTempMonitor, writers,
                 notified, rdVars, outVars, txVars, ledVars, appVars>>
  /\ xYieldPending' = FALSE

(***************************************************************************)
(* lUartMsgtoInt32                                                         *)
(***************************************************************************)
\* int32_t arithmetic wraps modulo 2^32.  A value is computed on its two
\* 16-bit halves <<high, low>>, so that no intermediate result leaves the
\* range of 32-bit signed integers.
U32(x) == <<(x \div 65536) % 65536, x % 65536>>

S32(u) == IF u[1] >= 32768 THEN (u[1] - 65536) * 65536 + u[2] ELSE u[1] * 65536 + u[2]

\* The operators below bind each operand to its value before using it
\* (the one element of a singleton set), so that an operand is computed once.
AddU(a, b) ==
  CHOOSE r \in { <<(x[1] + y[1] + ((x[2] + y[2]) \div 65536)) % 65536,
                   (x[2] + y[2]) % 65536>> : x \in {a}, y \in {b} } : TRUE

NegU(a) == AddU(<<65535 - a[1], 65535 - a[2]>>, <<0, 1>>)

\* a * n for 0 <= n < 65536, by doubling
RECURSIVE TimesU(_, _)
TimesU(a, n) ==
  IF n = 0 THEN <<0, 0>>
  ELSE CHOOSE r \in { IF n % 2 = 1 THEN AddU(AddU(h, h), x) ELSE AddU(h, h) :
                        h \in {TimesU(a, n \div 2)}, x \in {a} } : TRUE

MulU(a, b) ==
  CHOOSE r \in { AddU(TimesU(x, y[2]), <<TimesU(x, y[1])[2], 0>>) :
                   x \in {a}, y \in {b} } : TRUE

Add32(a, b) == CHOOSE r \in { S32(u) : u \in {AddU(U32(a), U32(b))} } : TRUE
Sub32(a, b) == CHOOSE r \in { S32(u) : u \in {AddU(U32(a), NegU(U32(b)))} } : TRUE
Mul32(a, b) == CHOOSE r \in { S32(u) : u \in {MulU(U32(a), U32(b))} } : TRUE

IsDigit(c) == c >= CH_0 /\ c <= CH_9

\* The while loop from index i with ulNum = num: <<digits consumed, ulNum>>.
\* The buffer was zeroed, so the byte after the received ones is no digit.
RECURSIVE Accumulate(_, _, _)
Accumulate(b, i, num) ==
  IF i <= Len(b) /\ IsDigit(b[i])
    THEN CHOOSE r \in { Accumulate(b, i + 1, n) :
                          n \in {Add32(Mul32(num, 10), b[i] - CH_0)} } : TRUE
    ELSE <<i - 1, num>>

\* A conversion that stops after the first digit
lUartMsgtoInt32Short(b) ==
  IF b # <<>> /\ IsDigit(b[1]) THEN b[1] - CH_0 ELSE INVALID_NUM

lUartMsgtoInt32(b) ==
  CHOOSE v \in { IF r[1] > 0 THEN r[2] ELSE INVALID_NUM :
                   r \in {Accumulate(b, 1, 0)} } : TRUE

\* sprintf with %ld: the decimal digits of n, after a minus sign if n < 0
RECURSIVE DecimalNat(_)
DecimalNat(n) ==
  IF n < 10 THEN <<CH_0 + n>> ELSE Append(DecimalNat(n \div 10), CH_0 + (n % 10))

Decimal(n) == IF n < 0 THEN <<CH_MINUS>> \o DecimalNat(0 - n) ELSE DecimalNat(n)

(***************************************************************************)
(* vClockTaskFunction, vReadRtcDateTime, vSetAlarm, vSetDateAndTime        *)
(***************************************************************************)
\* xTaskNotifyWait, at the start of the task and after a quit
CK_Wait ==
  /\ pc[CLOCK] = "wait"
  /\ Runnable(CLOCK)
  /\ notified[CLOCK]
  /\ notified' = TaskNotifyTaken(notified, CLOCK)
  /\ xQuitCurrentApp' = [xQuitCurrentApp EXCEPT ![CLOCK] = FALSE]
  /\ pc' = [pc EXCEPT ![CLOCK] = "ck_menu"]
  /\ UNCHANGED <<envVars, rxneIE, xGoToSleep, xShowTemps, xRunTempMonitor, writers, rd, termInTime, xCurrentTickCount, cUartMsg,
                 ucDataByte, xReadSuccess, outVars, txVars, ledVars, appVars>>
  /\ xYieldPending' = FALSE

CK_Menu ==
  /\ pc[CLOCK] = "ck_menu"
  /\ Runnable(CLOCK)
  /\ QueueSendThen(MsgClockMenu, {CLOCK})
  /\ pc' = [pc EXCEPT ![CLOCK] = "ck_read"]
  /\ UNCHANGED <<envVars, rxneIE, xGoToSleep, xShowTemps, xRunTempMonitor, writers, notified, rdVars, txVars, ledVars,
                 appVars>>
  /\ xYieldPending' = FALSE

\* A quit that blocks without notifying the Main Menu task
SubAppLoopEndSilent(t, quit, top) ==
  /\ notified' = notified
  /\ pc' = [pc EXCEPT ![t] = IF quit THEN "wait" ELSE top]

\* The end of the loop body: on quit notify the Main Menu task and wait.
SubAppLoopEnd(t, quit, top) ==
  /\ notified' = IF quit THEN TaskNotify(notified, MENU) ELSE notified
  /\ pc' = [pc EXCEPT ![t] = IF quit THEN "wait" ELSE top]

\* The switch on ucOptionSelected
CK_Select ==
  /\ pc[CLOCK] = "ck_got"
  /\ Returned(CLOCK)
  /\ LET sel == OptionSelected(cUartMsg[CLOCK])
         go == xReadSuccess[CLOCK] /\ ~xQuitCurrentApp[CLOCK]
     IN  IF ~go
           THEN /\ SubAppLoopEnd(CLOCK, xQuitCurrentApp[CLOCK], "ck_menu")
                /\ UNCHANGED <<xQuitCurrentApp, outVars>>
           ELSE CASE sel = 1 ->
                       /\ QueueSend(MsgDateTime)
                       /\ pc' = [pc EXCEPT ![CLOCK] = "ck_menu"]
                       /\ UNCHANGED <<xQuitCurrentApp, notified>>
                  [] sel = 2 ->
                       /\ QueueSend(MsgTimeHour)
                       /\ pc' = [pc EXCEPT ![CLOCK] = "dt_h_read"]
                       /\ UNCHANGED <<xQuitCurrentApp, notified>>
                  [] sel = 3 ->
                       /\ QueueSend(MsgAlarmHour)
                       /\ pc' = [pc EXCEPT ![CLOCK] = "al_h_read"]
                       /\ UNCHANGED <<xQuitCurrentApp, notified>>
                  [] sel = 4 ->
                       /\ xQuitCurrentApp' = [xQuitCurrentApp EXCEPT ![CLOCK] = TRUE]
                       /\ SubAppLoopEnd(CLOCK, TRUE, "ck_menu")
                       /\ UNCHANGED outVars
                  [] OTHER ->
                       /\ QueueSend(MsgUnrecognized)
                       /\ pc' = [pc EXCEPT ![CLOCK] = "ck_menu"]
                       /\ UNCHANGED <<xQuitCurrentApp, notified>>
  /\ cUartMsg' = [cUartMsg EXCEPT ![CLOCK] = <<>>]
  /\ UNCHANGED <<envVars, rxneIE, xGoToSleep, xShowTemps, xRunTempMonitor, writers, rd, termInTime, xCurrentTickCount, ucDataByte,
                 xReadSuccess, txVars, ledVars, appVars>>
  /\ xYieldPending' = FALSE

\* A step of a multi-step prompt: the range its input must lie in
FieldRange(l) ==
  CASE l \in {"al_h_got", "dt_h_got"} -> 0..23
    [] l \in {"al_m_got", "al_s_got", "dt_m_got", "dt_s_got"} -> 0..59
    [] l = "dt_day_got" -> 1..31
    [] l = "dt_mon_got" -> 1..12
    [] l = "dt_yr_got" -> 0..99
    [] l = "dt_wd_got" -> 1..7

\* The input of a step is accepted
FieldOk(t, l) ==
  /\ xReadSuccess[t]
  /\ ~xQuitCurrentApp[t]
  /\ lUartMsgtoInt32(cUartMsg[t]) \in FieldRange(l)

\* vSetAlarm after the hour and after the minute were read
AL_Field ==
  /\ pc[CLOCK] \in {"al_h_got", "al_m_got"}
  /\ Returned(CLOCK)
  /\ IF FieldOk(CLOCK, pc[CLOCK])
       THEN /\ xAlarmAConfig' = Append(xAlarmAConfig, lUartMsgtoInt32(cUartMsg[CLOCK]))
            /\ QueueSend(IF pc[CLOCK] = "al_h_got" THEN MsgAlarmMinute ELSE MsgAlarmSecond)
            /\ pc' = [pc EXCEPT ![CLOCK] =
                        IF pc[CLOCK] = "al_h_got" THEN "al_m_read" ELSE "al_s_read"]
            /\ UNCHANGED notified
       ELSE /\ xAlarmAConfig' = <<>>
            /\ SubAppLoopEnd(CLOCK, xQuitCurrentApp[CLOCK], "ck_menu")
            /\ UNCHANGED outVars
  /\ cUartMsg' = [cUartMsg EXCEPT ![CLOCK] = <<>>]
  /\ UNCHANGED <<envVars, rxneIE, xGoToSleep, xShowTemps, xRunTempMonitor, writers, rd, termInTime, xCurrentTickCount, ucDataByte,
                 xQuitCurrentApp, xReadSuccess, txVars, ledVars, rtcTime,
                 rtcDate, rtcAlarm, xTimeConfig, xDateConfig, gameVars,
                 calcVars, tempVars>>
  /\ xYieldPending' = FALSE

\* An end of vSetAlarm that sets Alarm A with whatever was read last
AL_CommitAlways ==
  /\ pc[CLOCK] = "al_s_got"
  /\ Returned(CLOCK)
  /\ rtcAlarm' = Append(xAlarmAConfig, lUartMsgtoInt32(cUartMsg[CLOCK]))
  /\ xAlarmAConfig' = <<>>
  /\ SubAppLoopEnd(CLOCK, xQuitCurrentApp[CLOCK], "ck_menu")
  /\ cUartMsg' = [cUartMsg EXCEPT ![CLOCK] = <<>>]
  /\ UNCHANGED <<envVars, rxneIE, xGoToSleep, xShowTemps, xRunTempMonitor, writers, rd, termInTime, xCurrentTickCount, ucDataByte,
                 xQuitCurrentApp, xReadSuccess, outVars, txVars, ledVars,
                 rtcTime, rtcDate, xTimeConfig, xDateConfig, gameVars,
                 calcVars, tempVars>>
  /\ xYieldPending' = FALSE

\* vSetAlarm after the second was read: set and enable Alarm A
AL_Commit ==
  /\ pc[CLOCK] = "al_s_got"
  /\ Returned(CLOCK)
  /\ rtcAlarm' = IF FieldOk(CLOCK, "al_s_got")
                   THEN Append(xAlarmAConfig, lUartMsgtoInt32(cUartMsg[CLOCK]))
                   ELSE rtcAlarm
  /\ xAlarmAConfig' = <<>>
  /\ SubAppLoopEnd(CLOCK, xQuitCurrentApp[CLOCK], "ck_menu")
  /\ cUartMsg' = [cUartMsg EXCEPT ![CLOCK] = <<>>]
  /\ UNCHANGED <<envVars, rxneIE, xGoToSleep, xShowTemps, xRunTempMonitor, writers, rd, termInTime, xCurrentTickCount, ucDataByte,
                 xQuitCurrentApp, xReadSuccess, outVars, txVars, ledVars,
                 rtcTime, rtcDate, xTimeConfig, xDateConfig, gameVars,
                 calcVars, tempVars>>
  /\ xYieldPending' = FALSE

\* A time part that leaves the writing of the time to the end of the flow
DT_TimeDeferred ==
  /\ pc[CLOCK] \in {"dt_h_got", "dt_m_got", "dt_s_got"}
  /\ Returned(CLOCK)
  /\ LET l == pc[CLOCK]
         ok == FieldOk(CLOCK, l)
         v == lUartMsgtoInt32(cUartMsg[CLOCK])
     IN  /\ rtcTime' = rtcTime
         /\ xTimeConfig' = IF ok /\ l # "dt_s_got" THEN Append(xTimeConfig, v) ELSE <<>>
         /\ IF ok /\ l # "dt_s_got"
              THEN /\ QueueSend(IF l = "dt_h_got" THEN MsgTimeMinute ELSE MsgTimeSecond)
                   /\ pc' = [pc EXCEPT ![CLOCK] =
                               IF l = "dt_h_got" THEN "dt_m_read" ELSE "dt_s_read"]
                   /\ UNCHANGED notified
              ELSE IF ~xQuitCurrentApp[CLOCK]
                THEN /\ QueueSend(MsgDateDay)
                     /\ pc' = [pc EXCEPT ![CLOCK] = "dt_day_read"]
                     /\ UNCHANGED notified
                ELSE /\ SubAppLoopEnd(CLOCK, TRUE, "ck_menu")
                     /\ UNCHANGED outVars
  /\ cUartMsg' = [cUartMsg EXCEPT ![CLOCK] = <<>>]
  /\ UNCHANGED <<envVars, rxneIE, xGoToSleep, xShowTemps, xRunTempMonitor, writers, rd, termInTime, xCurrentTickCount, ucDataByte,
                 xQuitCurrentApp, xReadSuccess, txVars, ledVars, rtcDate,
                 rtcAlarm, xAlarmAConfig, xDateConfig, gameVars, calcVars,
                 tempVars>>
  /\ xYieldPending' = FALSE

\* vSetDateAndTime after the hour, the minute and the second were read.  A
\* step that is not accepted ends the time part; the date part follows
\* unless the user asked to quit.
DT_Time ==
  /\ pc[CLOCK] \in {"dt_h_got", "dt_m_got", "dt_s_got"}
  /\ Returned(CLOCK)
  /\ LET l == pc[CLOCK]
         ok == FieldOk(CLOCK, l)
         v == lUartMsgtoInt32(cUartMsg[CLOCK])
     IN  /\ rtcTime' = IF ok /\ l = "dt_s_got" THEN Append(xTimeConfig, v) ELSE rtcTime
         /\ xTimeConfig' = IF ok /\ l # "dt_s_got" THEN Append(xTimeConfig, v) ELSE <<>>
         /\ IF ok /\ l # "dt_s_got"
              THEN /\ QueueSend(IF l = "dt_h_got" THEN MsgTimeMinute ELSE MsgTimeSecond)
                   /\ pc' = [pc EXCEPT ![CLOCK] =
                               IF l = "dt_h_got" THEN "dt_m_read" ELSE "dt_s_read"]
                   /\ UNCHANGED notified
              ELSE IF ~xQuitCurrentApp[CLOCK]
                THEN /\ QueueSend(MsgDateDay)
                     /\ pc' = [pc EXCEPT ![CLOCK] = "dt_day_read"]
                     /\ UNCHANGED notified
                ELSE /\ SubAppLoopEnd(CLOCK, TRUE, "ck_menu")
                     /\ UNCHANGED outVars
  /\ cUartMsg' = [cUartMsg EXCEPT ![CLOCK] = <<>>]
  /\ UNCHANGED <<envVars, rxneIE, xGoToSleep, xShowTemps, xRunTempMonitor, writers, rd, termInTime, xCurrentTickCount, ucDataByte,
                 xQuitCurrentApp, xReadSuccess, txVars, ledVars, rtcDate,
                 rtcAlarm, xAlarmAConfig, xDateConfig, gameVars, calcVars,
                 tempVars>>
  /\ xYieldPending' = FALSE

\* vSetDateAndTime after the day, the month and the year were read
DT_Date ==
  /\ pc[CLOCK] \in {"dt_day_got", "dt_mon_got", "dt_yr_got"}
  /\ Returned(CLOCK)
  /\ LET l == pc[CLOCK]
         ok == FieldOk(CLOCK, l)
         v == lUartMsgtoInt32(cUartMsg[CLOCK])
     IN  IF ok
           THEN /\ xDateConfig' = Append(xDateConfig, v)
                /\ QueueSend(CASE l = "dt_day_got" -> MsgDateMonth
                               [] l = "dt_mon_got" -> MsgDateYear
                               [] l = "dt_yr_got" -> MsgDateWeekDay)
                /\ pc' = [pc EXCEPT ![CLOCK] =
                            CASE l = "dt_day_got" -> "dt_mon_read"
                              [] l = "dt_mon_got" -> "dt_yr_read"
                              [] l = "dt_yr_got" -> "dt_wd_read"]
                /\ UNCHANGED notified
           ELSE /\ xDateConfig' = <<>>
                /\ SubAppLoopEnd(CLOCK, xQuitCurrentApp[CLOCK], "ck_menu")
                /\ UNCHANGED outVars
  /\ cUartMsg' = [cUartMsg EXCEPT ![CLOCK] = <<>>]
  /\ UNCHANGED <<envVars, rxneIE, xGoToSleep, xShowTemps, xRunTempMonitor, writers, rd, termInTime, xCurrentTickCount, ucDataByte,
                 xQuitCurrentApp, xReadSuccess, txVars, ledVars, rtcTime,
                 rtcDate, rtcAlarm, xAlarmAConfig, xTimeConfig, gameVars,
                 calcVars, tempVars>>
  /\ xYieldPending' = FALSE

\* vSetDateAndTime after the weekday was read: RTC_SetDate, which may fail
DT_Commit ==
  /\ pc[CLOCK] = "dt_wd_got"
  /\ Returned(CLOCK)
  /\ xDateConfig' = <<>>
  /\ IF FieldOk(CLOCK, "dt_wd_got")
       THEN \E success \in BOOLEAN :
              IF success
                THEN /\ rtcDate' = Append(xDateConfig, lUartMsgtoInt32(cUartMsg[CLOCK]))
                     /\ UNCHANGED outVars
                ELSE /\ QueueSend(MsgDateError)
                     /\ UNCHANGED rtcDate
       ELSE UNCHANGED <<rtcDate, outVars>>
  /\ IF FieldOk(CLOCK, "dt_wd_got")
       THEN /\ pc' = [pc EXCEPT ![CLOCK] = "ck_menu"]
            /\ UNCHANGED notified
       ELSE SubAppLoopEnd(CLOCK, xQuitCurrentApp[CLOCK], "ck_menu")
  /\ cUartMsg' = [cUartMsg EXCEPT ![CLOCK] = <<>>]
  /\ UNCHANGED <<envVars, rxneIE, xGoToSleep, xShowTemps, xRunTempMonitor, writers, rd, termInTime, xCurrentTickCount, ucDataByte,
                 xQuitCurrentApp, xReadSuccess, txVars, ledVars, rtcTime,
                 rtcAlarm, xAlarmAConfig, xTimeConfig, gameVars, calcVars,
                 tempVars>>
  /\ xYieldPending' = FALSE

(***************************************************************************)
(* vGameTaskFunction                                                       *)
(***************************************************************************)
\* The values rand() % 26 takes in the model
RandNums == {13}

\* Assignment of an int32_t to the uint8_t lUserGuess
ToUint8(x) == x % 256

GM_Wait ==
  /\ pc[GAME] = "wait"
  /\ Runnable(GAME)
  /\ notified[GAME]
  /\ notified' = TaskNotifyTaken(notified, GAME)
  /\ xQuitCurrentApp' = [xQuitCurrentApp EXCEPT ![GAME] = FALSE]
  /\ pc' = [pc EXCEPT ![GAME] = "gm_new"]
  /\ UNCHANGED <<envVars, rxneIE, xGoToSleep, xShowTemps, xRunTempMonitor, writers, rd, termInTime, xCurrentTickCount, cUartMsg,
                 ucDataByte, xReadSuccess, outVars, txVars, ledVars, appVars>>
  /\ xYieldPending' = FALSE

\* Pick the number, reset the counter and prompt.
GM_New ==
  /\ pc[GAME] = "gm_new"
  /\ Runnable(GAME)
  /\ ucSelectedNum' \in RandNums
  /\ ulNumOfGuesses' = 0
  /\ QueueSendThen(MsgGamePrompt, {GAME})
  /\ pc' = [pc EXCEPT ![GAME] = "gm_read"]
  /\ UNCHANGED <<envVars, rxneIE, xGoToSleep, xShowTemps, xRunTempMonitor, writers, notified, rdVars, txVars, ledVars,
                 rtcVars, lUserGuess, calcVars, tempVars>>
  /\ xYieldPending' = FALSE

\* The guess is converted and counted, and the condition of the inner loop
\* is tested.
GM_Got ==
  /\ pc[GAME] = "gm_got"
  /\ Returned(GAME)
  /\ lUserGuess' = ToUint8(lUartMsgtoInt32(cUartMsg[GAME]))
  /\ ulNumOfGuesses' = ulNumOfGuesses + 1
  /\ pc' = [pc EXCEPT ![GAME] =
              IF lUserGuess' # ucSelectedNum /\ xReadSuccess[GAME]
                 /\ ~xQuitCurrentApp[GAME]
                THEN "gm_hint" ELSE "gm_end"]
  /\ cUartMsg' = [cUartMsg EXCEPT ![GAME] = <<>>]
  /\ UNCHANGED <<envVars, rxneIE, xGoToSleep, xShowTemps, xRunTempMonitor, writers, notified, rd, termInTime, xCurrentTickCount,
                 ucDataByte, xQuitCurrentApp, xReadSuccess, outVars, txVars,
                 ledVars, rtcVars, ucSelectedNum, calcVars, tempVars>>
  /\ xYieldPending' = FALSE

GM_Hint ==
  /\ pc[GAME] = "gm_hint"
  /\ Runnable(GAME)
  /\ QueueSend(IF lUserGuess > ucSelectedNum THEN MsgTooHigh ELSE MsgTooLow)
  /\ pc' = [pc EXCEPT ![GAME] = "gm_again"]
  /\ UNCHANGED <<envVars, rxneIE, xGoToSleep, xShowTemps, xRunTempMonitor, writers, notified, rdVars, txVars, ledVars,
                 appVars>>
  /\ xYieldPending' = FALSE

GM_Again ==
  /\ pc[GAME] = "gm_again"
  /\ Runnable(GAME)
  /\ ulNumOfGuesses < MaxGuesses
  /\ QueueSend(MsgGuessAgain)
  /\ pc' = [pc EXCEPT ![GAME] = "gm_read"]
  /\ UNCHANGED <<envVars, rxneIE, xGoToSleep, xShowTemps, xRunTempMonitor, writers, notified, rdVars, txVars, ledVars,
                 appVars>>
  /\ xYieldPending' = FALSE

\* After the inner loop: the success message, then the quit handling.
GM_End ==
  /\ pc[GAME] = "gm_end"
  /\ Runnable(GAME)
  /\ IF lUserGuess = ucSelectedNum
       THEN QueueSend(MsgCorrect(ulNumOfGuesses))
       ELSE UNCHANGED outVars
  /\ SubAppLoopEnd(GAME, xQuitCurrentApp[GAME], "gm_new")
  /\ UNCHANGED <<envVars, rxneIE, xGoToSleep, xShowTemps, xRunTempMonitor, writers, rdVars, txVars, ledVars, appVars>>
  /\ xYieldPending' = FALSE

(***************************************************************************)
(* vCalculatorTaskFunction                                                 *)
(***************************************************************************)
MinInt32 == S32(<<32768, 0>>)

\* a / b for b > 0: C division truncates toward zero
QuotientPos(a, b) ==
  IF a >= 0 THEN a \div b ELSE (a \div b) + (IF a % b = 0 THEN 0 ELSE 1)

\* A division that refuses a zero divisor
DivideGuarded(a, b) ==
  IF b = 0 THEN {}
  ELSE IF b > 0 THEN {<<QuotientPos(a, b)>>}
  ELSE IF b = MinInt32 THEN {<<IF a = MinInt32 THEN 1 ELSE 0>>}
  ELSE {<<Sub32(0, QuotientPos(a, 0 - b))>>}

\* lFirstNum / lSecondNum: <<result>>, or <<>> for the trap on a zero divisor
Divide(a, b) ==
  IF b = 0 THEN {<<>>, <<0>>}
  ELSE IF b > 0 THEN {<<QuotientPos(a, b)>>}
  ELSE IF b = MinInt32 THEN {<<IF a = MinInt32 THEN 1 ELSE 0>>}
  ELSE {<<Sub32(0, QuotientPos(a, 0 - b))>>}

\* A calculator whose switch takes '*' for '+'
CalculateSum(op, a, b) ==
  CASE op = CH_PLUS -> {<<Add32(a, b)>>}
    [] op = CH_MINUS -> {<<Sub32(a, b)>>}
    [] op = CH_STAR -> {<<Add32(a, b)>>}
    [] op = CH_SLASH -> Divide(a, b)
    [] OTHER -> {}

\* The operators of the switch: the set of outcomes for each
Calculate(op, a, b) ==
  CASE op = CH_PLUS -> {<<Add32(a, b)>>}
    [] op = CH_MINUS -> {<<Sub32(a, b)>>}
    [] op = CH_STAR -> {<<Mul32(a, b)>>}
    [] op = CH_SLASH -> Divide(a, b)
    [] OTHER -> {}

CA_Wait ==
  /\ pc[CALC] = "wait"
  /\ Runnable(CALC)
  /\ notified[CALC]
  /\ notified' = TaskNotifyTaken(notified, CALC)
  /\ xQuitCurrentApp' = [xQuitCurrentApp EXCEPT ![CALC] = FALSE]
  /\ pc' = [pc EXCEPT ![CALC] = "ca_new"]
  /\ UNCHANGED <<envVars, rxneIE, xGoToSleep, xShowTemps, xRunTempMonitor, writers, rd, termInTime, xCurrentTickCount, cUartMsg,
                 ucDataByte, xReadSuccess, outVars, txVars, ledVars, appVars>>
  /\ xYieldPending' = FALSE

CA_New ==
  /\ pc[CALC] = "ca_new"
  /\ Runnable(CALC)
  /\ lFirstNum' = INVALID_NUM
  /\ lSecondNum' = INVALID_NUM
  /\ QueueSendThen(MsgCalcFirst, {CALC})
  /\ pc' = [pc EXCEPT ![CALC] = "ca_1_read"]
  /\ UNCHANGED <<envVars, rxneIE, xGoToSleep, xShowTemps, xRunTempMonitor, writers, notified, rdVars, txVars, ledVars,
                 rtcVars, gameVars, tempVars>>
  /\ xYieldPending' = FALSE

\* After the first and after the second number were read
CA_Number ==
  /\ pc[CALC] \in {"ca_1_got", "ca_2_got"}
  /\ Returned(CALC)
  /\ LET first == pc[CALC] = "ca_1_got"
         v == lUartMsgtoInt32(cUartMsg[CALC])
         go == xReadSuccess[CALC] /\ ~xQuitCurrentApp[CALC] /\ v # INVALID_NUM
     IN  /\ lFirstNum' = IF first THEN v ELSE lFirstNum
         /\ lSecondNum' = IF first THEN lSecondNum ELSE v
         /\ IF go
              THEN /\ QueueSend(IF first THEN MsgCalcSecond ELSE MsgCalcOperator)
                   /\ pc' = [pc EXCEPT ![CALC] =
                               IF first THEN "ca_2_read" ELSE "ca_op_read"]
                   /\ UNCHANGED notified
              ELSE /\ SubAppLoopEnd(CALC, xQuitCurrentApp[CALC], "ca_new")
                   /\ UNCHANGED outVars
  /\ cUartMsg' = [cUartMsg EXCEPT ![CALC] = <<>>]
  /\ UNCHANGED <<envVars, rxneIE, xGoToSleep, xShowTemps, xRunTempMonitor, writers, rd, termInTime, xCurrentTickCount, ucDataByte,
                 xQuitCurrentApp, xReadSuccess, txVars, ledVars, rtcVars,
                 gameVars, tempVars>>
  /\ xYieldPending' = FALSE

\* After the operator was read: the switch on cUartMsg[0]
CA_Operator ==
  /\ pc[CALC] = "ca_op_got"
  /\ Returned(CALC)
  /\ LET op == FirstByte(cUartMsg[CALC])
         go == xReadSuccess[CALC] /\ ~xQuitCurrentApp[CALC]
         res == Calculate(op, lFirstNum, lSecondNum)
     IN  IF ~go
           THEN /\ SubAppLoopEnd(CALC, xQuitCurrentApp[CALC], "ca_new")
                /\ UNCHANGED outVars
           ELSE IF res = {}
             THEN /\ QueueSend(MsgBadOperator)
                  /\ pc' = [pc EXCEPT ![CALC] = "ca_new"]
                  /\ UNCHANGED notified
             ELSE \E r \in res :
                    IF r = <<>>
                      THEN /\ pc' = [pc EXCEPT ![CALC] = "fault"]
                           /\ UNCHANGED <<notified, outVars>>
                      ELSE /\ QueueSend(MsgCalculated(r[1]))
                           /\ pc' = [pc EXCEPT ![CALC] = "ca_new"]
                           /\ UNCHANGED notified
  /\ cUartMsg' = [cUartMsg EXCEPT ![CALC] = <<>>]
  /\ UNCHANGED <<envVars, rxneIE, xGoToSleep, xShowTemps, xRunTempMonitor, writers, rd, termInTime, xCurrentTickCount, ucDataByte,
                 xQuitCurrentApp, xReadSuccess, txVars, ledVars, appVars>>
  /\ xYieldPending' = FALSE

(***************************************************************************)
(* vTempMonitorTaskFunction                                                *)
(***************************************************************************)
\* The values fMeasureTemp() returns in the model
Temps == {20, 30}

\* Top of the loop: with the monitor stopped, reset the statistics and wait.
MON_Check ==
  /\ pc[TEMP] = "top"
  /\ Runnable(TEMP)
  /\ IF ~xRunTempMonitor
       THEN /\ fHighestTemp' = 0
            /\ fLowestTemp' = 100
            /\ pc' = [pc EXCEPT ![TEMP] = "wait"]
       ELSE /\ pc' = [pc EXCEPT ![TEMP] = "sample"]
            /\ UNCHANGED <<fHighestTemp, fLowestTemp>>
  /\ UNCHANGED <<envVars, rxneIE, xGoToSleep, xShowTemps, xRunTempMonitor, writers, notified, rdVars, outVars, txVars,
                 ledVars, rtcVars, gameVars, calcVars, fCurrentTemp>>
  /\ xYieldPending' = FALSE

MON_Wait ==
  /\ pc[TEMP] = "wait"
  /\ Runnable(TEMP)
  /\ notified[TEMP]
  /\ notified' = TaskNotifyTaken(notified, TEMP)
  /\ xRunTempMonitor' = TRUE
  /\ writers' = Wrote("xRunTempMonitor", TEMP)
  /\ pc' = [pc EXCEPT ![TEMP] = "sample"]
  /\ UNCHANGED <<envVars, rxneIE, xGoToSleep, xShowTemps, rdVars, outVars,
                 txVars, ledVars, appVars>>
  /\ xYieldPending' = FALSE

\* A monitor that records the last measurement as both extremes
MON_SampleLast ==
  /\ pc[TEMP] = "sample"
  /\ Runnable(TEMP)
  /\ \E m \in Temps :
       /\ fCurrentTemp' = m
       /\ fHighestTemp' = m
       /\ fLowestTemp' = m
  /\ pc' = [pc EXCEPT ![TEMP] = "delay"]
  /\ UNCHANGED <<envVars, rxneIE, xGoToSleep, xShowTemps, xRunTempMonitor, writers, notified, rdVars, outVars, txVars,
                 ledVars, rtcVars, gameVars, calcVars>>
  /\ xYieldPending' = FALSE

\* Measure, and update the highest or else the lowest temperature.
MON_Sample ==
  /\ pc[TEMP] = "sample"
  /\ Runnable(TEMP)
  /\ \E m \in Temps :
       /\ fCurrentTemp' = m
       /\ fHighestTemp' = IF m > fHighestTemp THEN m ELSE fHighestTemp
       /\ fLowestTemp' = IF ~(m > fHighestTemp) /\ m < fLowestTemp THEN m ELSE fLowestTemp
  /\ pc' = [pc EXCEPT ![TEMP] = "delay"]
  /\ UNCHANGED <<envVars, rxneIE, xGoToSleep, xShowTemps, xRunTempMonitor, writers, notified, rdVars, outVars, txVars,
                 ledVars, rtcVars, gameVars, calcVars>>
  /\ xYieldPending' = FALSE

\* vTaskDelay(pdMS_TO_TICKS(500)) has elapsed; test xShowTemps.
MON_DelayDone ==
  /\ pc[TEMP] = "delay"
  /\ Runnable(TEMP)
  /\ pc' = [pc EXCEPT ![TEMP] = IF xShowTemps THEN "show_cur" ELSE "top"]
  /\ UNCHANGED <<envVars, rxneIE, xGoToSleep, xShowTemps, xRunTempMonitor, writers, notified, rdVars, outVars, txVars,
                 ledVars, appVars>>
  /\ xYieldPending' = FALSE

\* A monitor that posts the highest temperature before the current one
MON_ShowHighFirst ==
  /\ pc[TEMP] \in {"show_cur", "show_high", "show_low"}
  /\ Runnable(TEMP)
  /\ QueueSend(CASE pc[TEMP] = "show_cur" -> MsgVal(MsgTempHighest.text, fHighestTemp)
                 [] pc[TEMP] = "show_high" -> MsgVal(MsgTempCurrent.text, fCurrentTemp)
                 [] pc[TEMP] = "show_low" -> MsgVal(MsgTempLowest.text, fLowestTemp))
  /\ pc' = [pc EXCEPT ![TEMP] =
              CASE pc[TEMP] = "show_cur" -> "show_high"
                [] pc[TEMP] = "show_high" -> "show_low"
                [] pc[TEMP] = "show_low" -> "show_done"]
  /\ UNCHANGED <<envVars, rxneIE, xGoToSleep, xShowTemps, xRunTempMonitor, writers, notified, rdVars, txVars, ledVars,
                 appVars>>
  /\ xYieldPending' = FALSE

\* The three statistics messages, one xQueueSend each
MON_Show ==
  /\ pc[TEMP] \in {"show_cur", "show_high", "show_low"}
  /\ Runnable(TEMP)
  /\ QueueSend(CASE pc[TEMP] = "show_cur" -> MsgVal(MsgTempCurrent.text, fCurrentTemp)
                 [] pc[TEMP] = "show_high" -> MsgVal(MsgTempHighest.text, fHighestTemp)
                 [] pc[TEMP] = "show_low" -> MsgVal(MsgTempLowest.text, fLowestTemp))
  /\ pc' = [pc EXCEPT ![TEMP] =
              CASE pc[TEMP] = "show_cur" -> "show_high"
                [] pc[TEMP] = "show_high" -> "show_low"
                [] pc[TEMP] = "show_low" -> "show_done"]
  /\ UNCHANGED <<envVars, rxneIE, xGoToSleep, xShowTemps, xRunTempMonitor, writers, notified, rdVars, txVars, ledVars,
                 appVars>>
  /\ xYieldPending' = FALSE

\* Reset xShowTemps after the third message.
MON_ShowDone ==
  /\ pc[TEMP] = "show_done"
  /\ Runnable(TEMP)
  /\ xShowTemps' = FALSE
  /\ writers' = Wrote("xShowTemps", TEMP)
  /\ pc' = [pc EXCEPT ![TEMP] = "top"]
  /\ UNCHANGED <<envVars, rxneIE, xGoToSleep, xRunTempMonitor, notified, rdVars,
                 outVars, txVars, ledVars, appVars>>
  /\ xYieldPending' = FALSE

(***************************************************************************)
(* main() and vRtcSetup(): the state when the scheduler starts.            *)
(***************************************************************************)
Init ==
  /\ tick = 0
  /\ rx = <<>>
  /\ typed = <<>>
  /\ rxneIE = FALSE
  /\ xGoToSleep = FALSE
  /\ xShowTemps = FALSE
  /\ xRunTempMonitor = FALSE
  /\ writers = [f \in Flags |-> {}]
  /\ xYieldPending = FALSE
  /\ notified = [t \in Waiters |-> FALSE]
  /\ pc = [t \in Tasks |->
             CASE t = WRITER -> "recv"
               [] t = MENU -> "mm_menu"
               [] t = TEMP -> "top"
               [] OTHER -> "wait"]
  /\ rd = [t \in Readers |-> "idle"]
  /\ xCurrentTickCount = [t \in Readers |-> 0]
  /\ cUartMsg = [t \in Readers |-> <<>>]
  /\ ucDataByte = [t \in Readers |-> 0]
  /\ xQuitCurrentApp = [t \in Readers |-> FALSE]
  /\ xReadSuccess = [t \in Readers |-> FALSE]
  /\ termInTime = [t \in Readers |-> FALSE]
  /\ uartQueue = <<>>
  /\ pendingOut = <<>>
  /\ msgBuffer = [t \in Producers |-> NoMsg]
  /\ pcData = NoMsg
  /\ txPos = 0
  /\ console = {}
  /\ alarmOut = <<>>
  /\ pxLedToggleTimer = "NULL"
  /\ timerState = "none"
  /\ led = FALSE
  /\ rtcTime = <<17, 0, 0>>
  /\ rtcDate = <<3, 12, 20, 4>>
  /\ rtcAlarm = NoAlarm
  /\ xAlarmAConfig = <<>>
  /\ xTimeConfig = <<>>
  /\ xDateConfig = <<>>
  /\ ucSelectedNum = 255
  /\ lUserGuess = 255
  /\ ulNumOfGuesses = 0
  /\ lFirstNum = INVALID_NUM
  /\ lSecondNum = INVALID_NUM
  /\ fHighestTemp = 0
  /\ fLowestTemp = 100
  /\ fCurrentTemp = 0

(***************************************************************************)
(* The steps of each task, and the system.                                 *)
(***************************************************************************)
Reader(t) == RdEnter(t) \/ RdPoll(t) \/ RdFinal(t)

Writer == W_Receive \/ W_SendByte

MenuLoop == MM_ShowMenu \/ MM_Dispatch \/ MM_Wait \/ Reader(MENU)

ManageTempMonitor == TM_Prompt \/ TM_Select \/ TM_DelayDone

ManageLedToggle == LED_Prompt \/ LED_Select

ManageAppSleep == SL_Arm \/ SL_Set \/ SL_Wake \/ SL_Disarm \/ USART2_IRQHandler

ClockLoop == CK_Wait \/ CK_Menu \/ CK_Select \/ Reader(CLOCK)

SetAlarm == AL_Field \/ AL_Commit \/ RTC_Alarm_IRQHandler

SetDateAndTime == DT_Time \/ DT_Date \/ DT_Commit

Game == GM_Wait \/ GM_New \/ GM_Got \/ GM_Hint \/ GM_Again \/ GM_End \/ Reader(GAME)

Calculator == CA_Wait \/ CA_New \/ CA_Number \/ CA_Operator \/ Reader(CALC)

TempMonitor ==
  MON_Check \/ MON_Wait \/ MON_Sample \/ MON_DelayDone \/ MON_Show \/ MON_ShowDone

\* The lines the user may type
AllLines ==
  { <<CH_0 + 1>>, <<CH_0 + 2>>, <<CH_0 + 3>>, <<CH_0 + 4>>, <<CH_0 + 5>>,
    <<CH_0 + 6>>, <<CH_0 + 7>>, <<CH_q>>, <<CH_y>>, <<CH_n>>, <<CH_PLUS>>,
    <<CH_SLASH>> }

Next ==
  \/ Tick
  \/ UsartRx(AllLines)
  \/ Writer
  \/ MenuLoop
  \/ ManageTempMonitor
  \/ ManageLedToggle
  \/ vLedToggle
  \/ ManageAppSleep
  \/ ClockLoop
  \/ SetAlarm
  \/ SetDateAndTime
  \/ Game
  \/ Calculator
  \/ TempMonitor

Spec == Init /\ [][Next]_vars

(***************************************************************************)
(* The line reader: the Main Menu task reading lines that select nothing,  *)
(* against the tick count, with the UART write task.                       *)
(***************************************************************************)
LineLines ==
  { <<CH_0 + 7>>, <<CH_q>>, <<CH_Q>>, <<CH_x, CH_q>>, <<CH_q, CH_x>> }

NextLine ==
  \/ Tick
  \/ UsartRx(LineLines)
  \/ Writer
  \/ MM_ShowMenu
  \/ MM_Dispatch
  \/ Reader(MENU)

SpecLine == Init /\ [][NextLine]_vars

\* The tick interrupt and the tasks keep running; the user need not type.
FairLine ==
  /\ SpecLine
  /\ WF_vars(Tick)
  /\ WF_vars(Writer)
  /\ WF_vars(MM_ShowMenu \/ MM_Dispatch \/ Reader(MENU))

(***************************************************************************)
(* The Main Menu task with its inline routines: every selection of the     *)
(* main menu.                                                              *)
(***************************************************************************)
MenuLines ==
  { <<CH_0 + 1>>, <<CH_0 + 2>>, <<CH_0 + 3>>, <<CH_0 + 4>>, <<CH_0 + 5>>,
    <<CH_0 + 6>>, <<CH_0 + 2, CH_x>>, <<CH_q>> }

NextMenu ==
  \/ Tick
  \/ UsartRx(MenuLines)
  \/ Writer
  \/ MenuLoop
  \/ ManageTempMonitor
  \/ ManageLedToggle
  \/ ManageAppSleep

SpecMenu == Init /\ [][NextMenu]_vars

(***************************************************************************)
(* The handoff between the Main Menu task and the Clock task, with the     *)
(* sleep mode and its wake-up interrupt.                                   *)
(***************************************************************************)
HandoffLines == { <<CH_0 + 1>>, <<CH_0 + 6>>, <<CH_q>> }

NextHandoff ==
  \/ UsartRx(HandoffLines)
  \/ Writer
  \/ MenuLoop
  \/ ManageAppSleep
  \/ ClockLoop

SpecHandoff == Init /\ [][NextHandoff]_vars

\* An enabled interrupt is served.  A task that is ready runs between two
\* interrupts, the processor being faster than the serial line: a task that
\* is ready again and again is not kept from running by the bytes that
\* arrive in between.
FairHandoff ==
  /\ SpecHandoff
  /\ WF_vars(USART2_IRQHandler)
  /\ SF_vars(Writer)
  /\ SF_vars(MenuLoop \/ SL_Arm \/ SL_Set \/ SL_Wake \/ SL_Disarm)
  /\ SF_vars(ClockLoop)

(***************************************************************************)
(* The Clock task setting Alarm A, and the alarm interrupt.                *)
(***************************************************************************)
AlarmLines == { <<CH_0 + 1>>, <<CH_0 + 3>>, <<CH_0 + 3, CH_0 + 3>>, <<CH_q>> }

NextAlarm ==
  \/ Tick
  \/ UsartRx(AlarmLines)
  \/ Writer
  \/ MenuLoop
  \/ ClockLoop
  \/ SetAlarm

SpecAlarm == Init /\ [][NextAlarm]_vars

(***************************************************************************)
(* The producers of output: the Main Menu task managing the temperature    *)
(* monitor, and the Temperature Monitor task, with the UART write task.    *)
(***************************************************************************)
OutputLines == { <<CH_0 + 1>>, <<CH_0 + 2>>, <<CH_0 + 3>>, <<CH_0 + 4>> }

NextOutput ==
  \/ UsartRx(OutputLines)
  \/ Writer
  \/ MM_ShowMenu
  \/ MM_Dispatch
  \/ Reader(MENU)
  \/ ManageTempMonitor
  \/ TempMonitor

SpecOutput == Init /\ [][NextOutput]_vars

\* The UART write task, ready whenever a message is queued, keeps running.
FairOutput == SpecOutput /\ WF_vars(Writer)

\* The background work and the sleep routine, without the tick: the Main
\* Menu task with the three routines it runs itself, the Temperature Monitor
\* task, the LED timer and the writer.
SleepLines ==
  { <<CH_0 + 1>>, <<CH_0 + 2>>, <<CH_0 + 3>>, <<CH_0 + 4>>, <<CH_0 + 5>>,
    <<CH_0 + 6>>, <<CH_y>>, <<CH_n>> }

\* The user answers a prompt, or types to wake the sleeping application
Reply(L) ==
  /\ \/ \E t \in Readers : rd[t] = "poll"
     \/ pc[MENU] = "sl_wait"
  /\ UsartRx(L)

\* No sub-application runs here: the Main Menu task never returns from the
\* wait for one
MenuAlone == MM_ShowMenu \/ MM_Dispatch \/ Reader(MENU)

NextSleep ==
  \/ Reply(SleepLines)
  \/ Writer
  \/ MenuAlone
  \/ ManageTempMonitor
  \/ ManageLedToggle
  \/ ManageAppSleep
  \/ TempMonitor
  \/ vLedToggle

SpecSleep == Init /\ [][NextSleep]_vars

\* A task that is ready again and again gets the processor: the receive
\* interrupt pre-empts the tasks for one byte at a time, and the processor
\* is faster than the serial line.
FairSleep ==
  /\ SpecSleep
  /\ WF_vars(USART2_IRQHandler)
  /\ SF_vars(Writer)
  /\ SF_vars(MenuAlone \/ ManageTempMonitor \/ ManageLedToggle
               \/ SL_Arm \/ SL_Set \/ SL_Wake \/ SL_Disarm)
  /\ SF_vars(TempMonitor)

\* The alarm while the application sleeps: the Clock task setting Alarm A,
\* the Main Menu task going to sleep, and the two interrupt handlers.
ReminderLines == { <<CH_0 + 1>>, <<CH_0 + 3>>, <<CH_0 + 6>>, <<CH_q>> }

NextReminder ==
  \/ Reply(ReminderLines)
  \/ Writer
  \/ MenuLoop
  \/ ClockLoop
  \/ SetAlarm
  \/ ManageAppSleep

SpecReminder == Init /\ [][NextReminder]_vars

\* The game: the Main Menu task, the Game task and the writer.  The guesses
\* are numbers below, above and equal to the selected one, one of them above
\* 255.
GameLines ==
  { <<CH_0 + 2>>, <<CH_0 + 5>>, <<CH_0 + 1, CH_0 + 3>>, <<CH_0 + 2, CH_0>>,
    <<CH_0 + 2, CH_0 + 6, CH_0 + 9>>, <<CH_q>> }

NextGame ==
  \/ Reply(GameLines)
  \/ Writer
  \/ MenuLoop
  \/ Game

SpecGame == Init /\ [][NextGame]_vars

\* The game with its time limit: the guess 13 with and without the return
\* key in time, and the guess followed by the letter q.
GuessLines ==
  { <<CH_0 + 2>>, <<CH_0 + 5>>, <<CH_0 + 1, CH_0 + 3>>, <<CH_0 + 1, CH_0 + 3, CH_q>>,
    <<CH_q>> }

NextGuess ==
  \/ Tick
  \/ Reply(GuessLines)
  \/ Writer
  \/ MenuLoop
  \/ Game

SpecGuess == Init /\ [][NextGuess]_vars

\* The calculator: the Main Menu task, the Calculator task and the writer.
\* The operands are small numbers, zero, the largest 32-bit signed number,
\* and digit strings above it, which the conversion takes to -7 and -2.
Digits(ds) == [i \in 1..Len(ds) |-> CH_0 + ds[i]]

CalcLines ==
  { Digits(<<3>>), Digits(<<7>>), Digits(<<0>>),
    Digits(<<2, 1, 4, 7, 4, 8, 3, 6, 4, 7>>),
    Digits(<<4, 2, 9, 4, 9, 6, 7, 2, 8, 9>>),
    Digits(<<4, 2, 9, 4, 9, 6, 7, 2, 9, 4>>),
    <<CH_PLUS>>, <<CH_MINUS>>, <<CH_STAR>>, <<CH_SLASH>>, <<CH_q>> }

NextCalc ==
  \/ Reply(CalcLines)
  \/ Writer
  \/ MenuLoop
  \/ Calculator

SpecCalc == Init /\ [][NextCalc]_vars

\* The conversion of digit strings: the Calculator task reading operands.
\* Every string over the digits 0, 1 and 9 up to MaxDigits long is typed,
\* three strings of nine digits, one of ten digits above the 32-bit range,
\* a line that begins with a digit and goes on with a letter, a line with no
\* digit, and the empty line.
DigitStrings ==
  UNION { { Digits(ds) : ds \in [1..n -> {0, 1, 9}] } : n \in 1..MaxDigits }

ParseLines ==
  DigitStrings
    \cup { Digits(<<3>>), <<CH_q>>,
           Digits(<<9, 9, 9, 9, 9, 9, 9, 9, 9>>),
           Digits(<<1, 2, 3, 4, 5, 6, 7, 8, 9>>),
           Digits(<<0, 0, 0, 0, 0, 0, 0, 0, 1>>),
           Digits(<<4, 2, 9, 4, 9, 6, 7, 2, 9, 5>>),
           <<CH_0 + 7, CH_x>>, <<CH_x>> }

NextParse ==
  \/ Reply(ParseLines)
  \/ Writer
  \/ MenuLoop
  \/ Calculator

SpecParse == Init /\ [][NextParse]_vars

\* The three menus that take a digit: the main menu, the menu of the Clock
\* task and the menu of vManageTempMonitor.  The digits typed are valid in
\* some of them and in none.
SelectLines == { <<CH_0 + 1>>, <<CH_0 + 4>>, <<CH_0 + 7>>, <<CH_x>>, <<CH_q>> }

NextSelect ==
  \/ Reply(SelectLines)
  \/ Writer
  \/ MenuLoop
  \/ ManageTempMonitor
  \/ ClockLoop

SpecSelect == Init /\ [][NextSelect]_vars

\* Setting the date and time: the Main Menu task, the Clock task with
\* vSetDateAndTime, and the writer.  Every field is answered with a valid
\* number, with a line that is no number, or with the quit line.
DateLines == { <<CH_0 + 1>>, <<CH_0 + 2>>, <<CH_x>>, <<CH_q>> }

NextDate ==
  \/ Reply(DateLines)
  \/ Writer
  \/ MenuLoop
  \/ ClockLoop
  \/ SetDateAndTime

SpecDate == Init /\ [][NextDate]_vars

\* The sub-applications with every prompt of theirs, without the tick: the
\* user types a selection, a number or the quit line at each prompt, and
\* types nothing ahead of a prompt.
QuitLines == { <<CH_0 + 1>>, <<CH_0 + 2>>, <<CH_0 + 3>>, <<CH_q>> }

\* What the user types where a number is asked for
FieldLines == { <<CH_0 + 1>>, <<CH_q>> }

\* A sub-application is asking for a number: a field of the time, the date
\* or the alarm, a guess, an operand or the operator
AtField ==
  \E t \in {CLOCK, GAME, CALC} : pc[t] \notin {"wait", "ck_menu", "ck_read", "ck_got"}

\* The user answers a prompt: a byte is typed while a call of
\* xReceiveUartMsg is waiting for one
Answer ==
  /\ \E t \in Readers : rd[t] = "poll"
  /\ UsartRx(IF AtField THEN FieldLines ELSE QuitLines)

NextQuit ==
  \/ Answer
  \/ Writer
  \/ MenuLoop
  \/ ClockLoop
  \/ AL_Field
  \/ AL_Commit
  \/ SetDateAndTime
  \/ Game
  \/ Calculator

SpecQuit == Init /\ [][NextQuit]_vars

\* Every task that is ready runs eventually: the writer has the highest
\* priority, the others share the lowest and are time sliced.
FairQuit ==
  /\ SpecQuit
  /\ WF_vars(Writer)
  /\ WF_vars(MenuLoop)
  /\ WF_vars(ClockLoop \/ AL_Field \/ AL_Commit \/ SetDateAndTime)
  /\ WF_vars(Game)
  /\ WF_vars(Calculator)

(***************************************************************************)
(* Properties.                                                             *)
(***************************************************************************)
\* The tasks that run only between a notification from the Main Menu task
\* and their own notification back
Exclusive == {CLOCK, GAME, CALC}

\* C1: strict alternation of the handoff.  The Main Menu task leaves the
\* notification wait that follows its notification of Clock, Game or
\* Calculator only when that task has notified back: at that step every
\* exclusive task is blocked in its own wait with no notification pending.
C1_StrictAlternation ==
  [][(pc[MENU] = "mm_wait" /\ pc'[MENU] # "mm_wait")
       => \A t \in Exclusive : pc[t] = "wait" /\ ~notified[t]]_vars

\* C2: mutual exclusion of the exclusive tasks.  At most one of Clock, Game
\* and Calculator is past its notification wait, and none is while the Main
\* Menu task is reading the selection at the main menu.
C2_MutualExclusion ==
  /\ Cardinality({t \in Exclusive : pc[t] # "wait"}) <= 1
  /\ pc[MENU] \in {"mm_read", "mm_got"} => \A t \in Exclusive : pc[t] = "wait"

\* C3: the dispatch table.  On a line read with success and without quit,
\* a first character '1', '2' or '3' notifies exactly Clock, Game or
\* Calculator and the Main Menu task goes to its wait; '4', '5' or '6'
\* enters the monitor, LED or sleep routine and notifies no task; a read
\* that timed out or asked to quit notifies no task, posts nothing and goes
\* back to showing the menu.
C3_DispatchTable ==
  [][(pc[MENU] = "mm_got" /\ pc'[MENU] # "mm_got") =>
       LET c == IF cUartMsg[MENU] = <<>> THEN 0 ELSE cUartMsg[MENU][1]
           ok == xReadSuccess[MENU] /\ ~xQuitCurrentApp[MENU]
           Only(t) == /\ notified' = [notified EXCEPT ![t] = TRUE]
                      /\ pc'[MENU] = "mm_wait"
           Inline(l) == notified' = notified /\ pc'[MENU] = l
       IN  /\ (ok /\ c = CH_0 + 1) => Only(CLOCK)
           /\ (ok /\ c = CH_0 + 2) => Only(GAME)
           /\ (ok /\ c = CH_0 + 3) => Only(CALC)
           /\ (ok /\ c = CH_0 + 4) => Inline("tm_prompt")
           /\ (ok /\ c = CH_0 + 5) => Inline("led_prompt")
           /\ (ok /\ c = CH_0 + 6) => Inline("sl_arm")
           /\ ~ok => Inline("mm_menu") /\ UNCHANGED uartQueue]_vars

\* A selection of '3' has notified the Calculator task and no other.
C3_Witness ==
  /\ pc[MENU] = "mm_wait"
  /\ notified[CALC]
  /\ ~notified[CLOCK]
  /\ ~notified[GAME]

\* The message the UART write task is transmitting, if any
InFlight == IF pc[WRITER] = "send" THEN <<pcData>> ELSE <<>>

C5_NoInterleaving == \A x, y \in console : x[1] = y[1]

C7_ReadTerminates == (rd[MENU] # "idle") ~> (rd[MENU] = "idle")

\* C8: the timeout notice.  The step by which a call returns posts the
\* timeout message, once, exactly when it returns pdFALSE; no other step of
\* the call posts anything.
C8_TimeoutNotice ==
  [][/\ (rd[MENU] # "idle" /\ rd'[MENU] = "idle") =>
          IF xReadSuccess'[MENU]
            THEN uartQueue' = uartQueue
            ELSE uartQueue' = Append(uartQueue, MsgTimeout)
     /\ (rd'[MENU] # "idle") => Len(uartQueue') <= Len(uartQueue)]_vars

\* A call has returned pdFALSE and its one timeout message is on the queue.
C8_Witness ==
  /\ pc[MENU] = "mm_got"
  /\ rd[MENU] = "idle"
  /\ ~xReadSuccess[MENU]
  /\ uartQueue = <<MsgTimeout>>

\* C9: success in time.  A call that received the return key while the tick
\* count was below the deadline returns pdTRUE.
C9_SuccessInTime ==
  [][(rd[MENU] = "final" /\ rd'[MENU] = "idle" /\ termInTime[MENU])
       => xReadSuccess'[MENU]]_vars

\* The step by which the call of the Main Menu task takes the return key
TakesReturnKey == rd[MENU] = "poll" /\ rx = <<CR>> /\ rx' = <<>>

\* The step by which the call of the Main Menu task takes another byte
TakesOtherByte == rd[MENU] = "poll" /\ rx # <<>> /\ rx # <<CR>> /\ rx' = <<>>

\* C10, as the specification states it: quit is set if and only if the line is exactly 'q' or
\* 'Q' followed by the return key.
C10_QuitExactLine ==
  [][/\ TakesReturnKey =>
          (xQuitCurrentApp'[MENU] <=> cUartMsg[MENU] \in {<<CH_q>>, <<CH_Q>>})
     /\ TakesOtherByte => ~xQuitCurrentApp'[MENU]]_vars

\* C10, as the code has it: quit is set if and only if the byte received
\* just before the return key is 'q' or 'Q', whatever came before it.
C10_QuitLastByte ==
  [][/\ TakesReturnKey =>
          (xQuitCurrentApp'[MENU] <=>
             /\ cUartMsg[MENU] # <<>>
             /\ cUartMsg[MENU][Len(cUartMsg[MENU])] \in {CH_q, CH_Q})
     /\ TakesOtherByte => ~xQuitCurrentApp'[MENU]]_vars

\* The line 'xq' followed by the return key has set quit.
C10_Witness ==
  /\ rd[MENU] = "final"
  /\ xQuitCurrentApp[MENU]
  /\ cUartMsg[MENU] = <<CH_x, CH_q>>

\* The statements that follow a call of xReceiveUartMsg
GotSites == { AfterRead(l) : l \in ReadSites }

\* Task t has read a line that asked to quit and has not yet acted on it
QuitRead(t) ==
  /\ xQuitCurrentApp[t]
  /\ \/ pc[t] \in GotSites /\ rd[t] = "idle"
     \/ pc[t] = "gm_end"

\* C11: quit returns to the Main Menu task from every prompt.  A Clock, Game
\* or Calculator task that has read a quit line goes nowhere but to its
\* notification wait; it enters that wait only with its quit flag set and in
\* the step that notifies the Main Menu task, which is notified by no other
\* step; and after the quit line the task is blocked in its wait and the
\* main menu is shown again.
C11_QuitReturns ==
  /\ [][\A t \in Exclusive :
          /\ (QuitRead(t) /\ pc'[t] # pc[t]) => pc'[t] \in {"wait", "gm_end"}
          /\ (pc[t] # "wait" /\ pc'[t] = "wait") =>
                xQuitCurrentApp'[t] /\ ~notified[MENU] /\ notified'[MENU]]_vars
  /\ [][(~notified[MENU] /\ notified'[MENU]) =>
          \E t \in Exclusive : pc[t] # "wait" /\ pc'[t] = "wait"]_vars
  /\ \A t \in Exclusive :
       QuitRead(t) ~> (pc[t] = "wait" /\ pc[MENU] = "mm_read")

\* The Calculator task was asked to quit at its operator prompt, is blocked
\* in its wait, and the main menu is shown again.
C11_Witness ==
  /\ pc[CALC] = "wait"
  /\ lSecondNum = 1
  /\ pc[MENU] = "mm_read"

\* C12: the sleep/wake handshake.  xGoToSleep is set only while the Main
\* Menu task is blocked in the wait of vManageAppSleep, so it is false once
\* the task has resumed; and when the routine returns, the one wake
\* notification was consumed and none is left pending.
C12_SleepHandshake ==
  /\ [](xGoToSleep => pc[MENU] = "sl_wait")
  /\ [][(pc[MENU] = "sl_disarm" /\ pc'[MENU] # "sl_disarm")
          => ~notified'[MENU]]_vars

\* The Main Menu task is asleep: the flag is set, the task is blocked in the
\* wait of vManageAppSleep and the RXNE interrupt is enabled
Asleep ==
  /\ xGoToSleep
  /\ pc[MENU] = "sl_wait"
  /\ ~notified[MENU]
  /\ rxneIE

\* C13: wake liveness.  Once the Main Menu task is asleep, a byte that
\* arrives leads to the task leaving its wait, which it does in the step
\* that posts the wake-up message, and from there to the main menu being
\* posted again.
C13_WakeLiveness ==
  /\ (Asleep /\ rx # <<>>) ~> (pc[MENU] = "sl_disarm")
  /\ [][(pc[MENU] = "sl_wait" /\ pc'[MENU] # "sl_wait") =>
          /\ pc'[MENU] = "sl_disarm"
          /\ uartQueue' = Append(uartQueue, MsgWokeUp)]_vars
  /\ (pc[MENU] = "sl_disarm") ~> (pc[MENU] = "mm_read")

\* The task was woken by a byte and has just posted the wake-up message.
C13_Witness ==
  /\ pc[MENU] = "sl_disarm"
  /\ ~xGoToSleep
  /\ uartQueue = <<MsgWokeUp>>
  /\ typed # <<>>

\* The Main Menu task is in the sleep routine, past the point where it has
\* stopped the background work and before it is woken
Sleeping == pc[MENU] \in {"sl_set", "sl_wait"}

\* C14: sleep quiesces the background work.  While the Main Menu task
\* sleeps the LED timer is not running, the Temperature Monitor task does
\* not leave the wait of its stopped state, and the monitor comes to that
\* wait unless the Main Menu task is woken first.
C14_SleepQuiesces ==
  /\ [](Sleeping => timerState # "active")
  /\ [][Sleeping => ~(pc[TEMP] = "wait" /\ pc'[TEMP] # "wait")]_vars
  /\ Sleeping ~> (pc[TEMP] = "wait" \/ ~Sleeping)

\* C15: the alarm interrupt handler never wakes the system.  A run of the
\* handler sends the triggered-alarm message, and after it the reminder
\* exactly when xGoToSleep is set; it changes neither xGoToSleep nor any
\* task's pending notification nor any task's position.
C15_AlarmNeverWakes ==
  [][alarmOut' # alarmOut =>
       /\ alarmOut' = IF xGoToSleep THEN <<MsgAlarm, MsgStillAsleep>>
                                    ELSE <<MsgAlarm>>
       /\ xGoToSleep' = xGoToSleep
       /\ notified' = notified
       /\ pc' = pc]_vars

C15_Witness ==
  /\ alarmOut = <<MsgAlarm, MsgStillAsleep>>
  /\ xGoToSleep
  /\ pc[MENU] = "sl_wait"
  /\ ~notified[MENU]

\* C16: extrema monotonicity.  Within a monitoring session the highest
\* temperature never decreases and the lowest never increases: the only
\* step that lowers the highest or raises the lowest is the reset the
\* monitor makes when it finds xRunTempMonitor cleared.
C16_ExtremaMonotonic ==
  [][(fHighestTemp' < fHighestTemp \/ fLowestTemp' > fLowestTemp) =>
       /\ pc[TEMP] = "top"
       /\ ~xRunTempMonitor
       /\ pc'[TEMP] = "wait"]_vars

C16_Witness ==
  /\ xRunTempMonitor
  /\ pc[TEMP] = "delay"
  /\ fHighestTemp = 30
  /\ fLowestTemp = 20
  /\ fCurrentTemp = 30

\* The Main Menu task carries out the selection "stop temperature monitoring"
StopSelected ==
  /\ pc[MENU] = "tm_got"
  /\ Len(pendingOut') > Len(pendingOut)
  /\ pendingOut'[Len(pendingOut')] = MsgTempStopped

\* C17: monitor stop.  When the user stops the monitor no start notification
\* is left pending on the Temperature Monitor task, whatever commands came
\* before; the task leaves the wait of its stopped state only by taking a
\* notification, hence only after a later start command; and whenever
\* xRunTempMonitor is cleared the task comes to that wait with its record
\* reset.
C17_MonitorStop ==
  /\ [][StopSelected => ~notified'[TEMP]]_vars
  /\ [][(pc[TEMP] = "wait" /\ pc'[TEMP] # "wait") => notified[TEMP]]_vars
  /\ ~xRunTempMonitor ~>
       (pc[TEMP] = "wait" /\ fHighestTemp = 0 /\ fLowestTemp = 100)

\* The Main Menu task is about to carry out the selection "display"
DisplaySelected ==
  /\ pc[MENU] = "tm_got"
  /\ rd[MENU] = "idle"
  /\ xReadSuccess[MENU]
  /\ ~xQuitCurrentApp[MENU]
  /\ OptionSelected(cUartMsg[MENU]) = 2

\* The Temperature Monitor task takes a step from position p
MonStep(p) == pc[TEMP] = p /\ pc'[TEMP] # p

\* C18: statistics publication.  The monitor publishes exactly when it finds
\* xShowTemps set after its delay; it then posts the current, the highest
\* and the lowest temperature, one message each and in this order, with the
\* flag still set, and clears the flag only after the third.  A display
\* request with the monitor not running posts the "not started" message and
\* leaves the flag as it is; the flag is set only by a display request with
\* the monitor running.
C18_StatsPublication ==
  /\ [][MonStep("delay") =>
          pc'[TEMP] = (IF xShowTemps THEN "show_cur" ELSE "top")]_vars
  /\ [][MonStep("show_cur") =>
          /\ uartQueue' = Append(uartQueue, MsgVal(MsgTempCurrent.text, fCurrentTemp))
          /\ pc'[TEMP] = "show_high"
          /\ xShowTemps']_vars
  /\ [][MonStep("show_high") =>
          /\ uartQueue' = Append(uartQueue, MsgVal(MsgTempHighest.text, fHighestTemp))
          /\ pc'[TEMP] = "show_low"
          /\ xShowTemps']_vars
  /\ [][MonStep("show_low") =>
          /\ uartQueue' = Append(uartQueue, MsgVal(MsgTempLowest.text, fLowestTemp))
          /\ pc'[TEMP] = "show_done"
          /\ xShowTemps']_vars
  /\ [][MonStep("show_done") =>
          /\ xShowTemps /\ ~xShowTemps'
          /\ uartQueue' = uartQueue
          /\ pc'[TEMP] = "top"]_vars
  /\ [][(xShowTemps /\ ~xShowTemps') => MonStep("show_done")]_vars
  /\ [][(DisplaySelected /\ ~xRunTempMonitor /\ pc'[MENU] # pc[MENU]) =>
          /\ uartQueue' = Append(uartQueue, MsgTempNotStarted)
          /\ xShowTemps' = xShowTemps]_vars
  /\ [][(~xShowTemps /\ xShowTemps') => (DisplaySelected /\ xRunTempMonitor)]_vars

\* The third message was posted and the flag is about to be cleared
C18_Witness ==
  /\ pc[TEMP] = "show_done"
  /\ xShowTemps
  /\ xRunTempMonitor
  /\ fCurrentTemp = 20
  /\ fHighestTemp = 30
  /\ fLowestTemp = 20

\* C19: single-writer flags.  Each of xGoToSleep, xShowTemps and
\* xRunTempMonitor is assigned by one execution context only, a task or an
\* interrupt handler.
C19_SingleWriterFlags == \A f \in Flags : Cardinality(writers[f]) <= 1

\* The Game task converts a guess that was read successfully and is a number
NumericGuess ==
  /\ pc[GAME] = "gm_got"
  /\ pc'[GAME] # "gm_got"
  /\ xReadSuccess[GAME]
  /\ ~xQuitCurrentApp[GAME]
  /\ lUartMsgtoInt32(cUartMsg[GAME]) # INVALID_NUM

\* C20: game responses.  A numeric guess above the selected number is
\* answered "too high", one below it "too low", and the first guess equal to
\* it ends the round with the "correct" message, which reports the number of
\* guesses made in the round, the correct one included.
C20_GameResponses ==
  /\ [][NumericGuess =>
          LET g == lUartMsgtoInt32(cUartMsg[GAME])
          IN  /\ ulNumOfGuesses' = ulNumOfGuesses + 1
              /\ g = ucSelectedNum => pc'[GAME] = "gm_end" /\ lUserGuess' = ucSelectedNum
              /\ g > ucSelectedNum => pc'[GAME] = "gm_hint" /\ lUserGuess' > ucSelectedNum
              /\ g < ucSelectedNum => pc'[GAME] = "gm_hint" /\ lUserGuess' < ucSelectedNum]_vars
  /\ [][(pc[GAME] = "gm_hint" /\ pc'[GAME] # "gm_hint") =>
          uartQueue' = Append(uartQueue, IF lUserGuess > ucSelectedNum
                                           THEN MsgTooHigh ELSE MsgTooLow)]_vars
  /\ [][(pc[GAME] = "gm_end" /\ pc'[GAME] # "gm_end" /\ lUserGuess = ucSelectedNum) =>
          uartQueue' = Append(uartQueue, MsgCorrect(ulNumOfGuesses))]_vars
  /\ [][(pc[GAME] = "gm_new" /\ pc'[GAME] # "gm_new") =>
          ulNumOfGuesses' = 0 /\ ucSelectedNum' \in 0..25]_vars

\* The Calculator task carries out the switch on the operator
CalcStep == pc[CALC] = "ca_op_got" /\ pc'[CALC] # "ca_op_got"

CalcOperators == {CH_PLUS, CH_MINUS, CH_STAR, CH_SLASH}

\* The Calculator task reports the result r
Reports(r) == uartQueue' = Append(uartQueue, MsgCalculated(r))

\* a / b in the integers, truncated toward zero
TruncDiv(a, b) ==
  LET q == (IF a < 0 THEN 0 - a ELSE a) \div (IF b < 0 THEN 0 - b ELSE b)
  IN  IF (a < 0) = (b < 0) THEN q ELSE 0 - q

\* a op b in the integers
Exact(op, a, b) ==
  CASE op = CH_PLUS -> a + b
    [] op = CH_MINUS -> a - b
    [] op = CH_STAR -> a * b
    [] op = CH_SLASH -> TruncDiv(a, b)

\* C21: calculator arithmetic.  With both operands and the operator read
\* successfully (and a divisor other than 0), the result reported is a op b
\* as a 32-bit signed number: exact where a op b is in range, wrapped where
\* it is not, truncated toward zero for the division.  7 * 3 is reported as
\* 21.  No result is reported unless both operands and one of the four
\* operators were read.
C21_CalculatorArithmetic ==
  /\ [][(/\ CalcStep
         /\ xReadSuccess[CALC] /\ ~xQuitCurrentApp[CALC]
         /\ FirstByte(cUartMsg[CALC]) \in CalcOperators
         /\ ~(FirstByte(cUartMsg[CALC]) = CH_SLASH /\ lSecondNum = 0))
        => LET op == FirstByte(cUartMsg[CALC])
               a == lFirstNum
               b == lSecondNum
           IN  /\ (a \in -7..7 /\ b \in -7..7) => Reports(Exact(op, a, b))
               /\ (a = 2147483647 /\ b \in -7..7 /\ op = CH_SLASH)
                     => Reports(TruncDiv(a, b))
               /\ (a = 2147483647 /\ b = 7 /\ op = CH_PLUS) => Reports(-2147483642)
               /\ (a = 2147483647 /\ b = 7 /\ op = CH_STAR) => Reports(2147483641)
               /\ (a = -2 /\ b = 2147483647 /\ op = CH_MINUS) => Reports(2147483647)
               /\ (a = 2147483647 /\ b = 2147483647 /\ op = CH_STAR) => Reports(1)
               /\ (a = 2147483647 /\ b = -7 /\ op = CH_MINUS) => Reports(-2147483642)
               /\ Len(uartQueue') = Len(uartQueue) + 1
               /\ uartQueue'[Len(uartQueue')].text = MsgCalculated(0).text]_vars
  /\ [][(Len(uartQueue') > Len(uartQueue)
          /\ uartQueue'[Len(uartQueue')].text = MsgCalculated(0).text)
        => /\ CalcStep
           /\ xReadSuccess[CALC] /\ ~xQuitCurrentApp[CALC]
           /\ lFirstNum # INVALID_NUM /\ lSecondNum # INVALID_NUM
           /\ FirstByte(cUartMsg[CALC]) \in CalcOperators]_vars

\* 7 * 3 = 21 was reported
C21_Witness ==
  /\ lFirstNum = 7
  /\ lSecondNum = 3
  /\ pc[CALC] = "ca_new"
  /\ pendingOut # <<>>
  /\ pendingOut[Len(pendingOut)] = MsgCalculated(21)

\* C22: the division by zero is unguarded.  A second operand of 0 passes the
\* test on the operand and the operator is asked for; with the operator '/'
\* the task performs the division: it either traps or reports a quotient,
\* and posts no error message.
C22_DivisionByZeroUnguarded ==
  /\ [][(/\ pc[CALC] = "ca_2_got" /\ pc'[CALC] # "ca_2_got"
         /\ xReadSuccess[CALC] /\ ~xQuitCurrentApp[CALC]
         /\ lUartMsgtoInt32(cUartMsg[CALC]) = 0)
        => /\ lSecondNum' = 0
           /\ pc'[CALC] = "ca_op_read"
           /\ uartQueue' = Append(uartQueue, MsgCalcOperator)]_vars
  /\ [][(/\ CalcStep
         /\ xReadSuccess[CALC] /\ ~xQuitCurrentApp[CALC]
         /\ FirstByte(cUartMsg[CALC]) = CH_SLASH
         /\ lSecondNum = 0)
        => \/ pc'[CALC] = "fault" /\ uartQueue' = uartQueue
           \/ /\ Len(uartQueue') = Len(uartQueue) + 1
              /\ uartQueue'[Len(uartQueue')].text = MsgCalculated(0).text]_vars

\* The division by zero has trapped
C22_Witness == pc[CALC] = "fault" /\ lFirstNum = 7 /\ lSecondNum = 0

\* The Calculator task converts the line it has read as an operand
OperandStep == pc[CALC] \in {"ca_1_got", "ca_2_got"} /\ pc'[CALC] # pc[CALC]

\* The operand stored by that step
OperandStored == IF pc[CALC] = "ca_1_got" THEN lFirstNum' ELSE lSecondNum'

\* b consists of decimal digits only, between 1 and 9 of them
DigitOnly(b) == Len(b) \in 1..9 /\ \A i \in 1..Len(b) : IsDigit(b[i])

\* C23, as the specification states it: a string of 1 to 9 decimal digits,
\* converted and printed in decimal, comes back unchanged.
C23_ParseRoundTrip ==
  [][(OperandStep /\ DigitOnly(cUartMsg[CALC]))
       => Decimal(OperandStored) = cUartMsg[CALC]]_vars

\* C23, amended: the string comes back unchanged when it has no leading
\* zero, that is when it is "0" or begins with a digit other than 0.
C23_ParseRoundTripNoLeadingZero ==
  [][(/\ OperandStep
      /\ DigitOnly(cUartMsg[CALC])
      /\ (Len(cUartMsg[CALC]) = 1 \/ cUartMsg[CALC][1] # CH_0))
       => Decimal(OperandStored) = cUartMsg[CALC]]_vars

\* 123456789 was converted
C23_Witness ==
  /\ pc[CALC] = "ca_2_read"
  /\ lFirstNum = 123456789
  /\ Decimal(lFirstNum) = Digits(<<1, 2, 3, 4, 5, 6, 7, 8, 9>>)

\* C24: the invalid-number sentinel.  The conversion yields INVALID_NUM
\* exactly when the line does not begin with a decimal digit; the empty line
\* yields it, and no line that begins with a digit does, whatever its value.
C24_InvalidSentinel ==
  [][OperandStep =>
       (OperandStored = INVALID_NUM
          <=> ~(cUartMsg[CALC] # <<>> /\ IsDigit(cUartMsg[CALC][1])))]_vars

\* The positions of vSetDateAndTime after a field was read
TimeSites == {"dt_h_got", "dt_m_got", "dt_s_got"}

DateSites == {"dt_day_got", "dt_mon_got", "dt_yr_got", "dt_wd_got"}

\* The Clock task takes the step that follows a field whose input is refused
FieldRefused(sites) ==
  /\ pc[CLOCK] \in sites
  /\ pc'[CLOCK] # pc[CLOCK]
  /\ ~FieldOk(CLOCK, pc[CLOCK])

\* The flow is left: nothing is posted, the clock keeps its time and date,
\* and the task goes to the Clock menu, or on a quit to its wait
FlowAborted ==
  /\ uartQueue' = uartQueue
  /\ rtcTime' = rtcTime
  /\ rtcDate' = rtcDate
  /\ pc'[CLOCK] = (IF xQuitCurrentApp[CLOCK] THEN "wait" ELSE "ck_menu")

\* C25: set date/time aborts on the first failure.  When the input of any
\* field, of the time or of the date, is refused (no number, out of range,
\* timed out, quit), no further prompt of the flow is posted, nothing is
\* written to the clock, and the task returns to the Clock menu or, on a
\* quit, to its wait.
C25_SetDateTimeAborts == [][FieldRefused(TimeSites \cup DateSites) => FlowAborted]_vars

\* The Clock task takes the step that follows the read of a field
FieldStep(site) == pc[CLOCK] = site /\ pc'[CLOCK] # site

LineRead(t) == Returned(t) /\ xReadSuccess[t] /\ ~xQuitCurrentApp[t]

\* The Calculator task takes the step after an operand that is no number
BadOperandStep ==
  /\ pc[CALC] \in {"ca_1_got", "ca_2_got"}
  /\ pc'[CALC] # pc[CALC]
  /\ LineRead(CALC)
  /\ lUartMsgtoInt32(cUartMsg[CALC]) = INVALID_NUM

\* The Calculator task takes the step after an operator it does not know
BadOperatorStep ==
  /\ pc[CALC] = "ca_op_got"
  /\ pc'[CALC] # pc[CALC]
  /\ LineRead(CALC)
  /\ FirstByte(cUartMsg[CALC]) \notin CalcOperators

\* The Clock task takes the step after a field that is no number of its range
BadFieldStep ==
  /\ pc[CLOCK] \in {"al_h_got", "al_m_got", "al_s_got"} \cup TimeSites \cup DateSites
  /\ pc'[CLOCK] # pc[CLOCK]
  /\ LineRead(CLOCK)
  /\ lUartMsgtoInt32(cUartMsg[CLOCK]) \notin FieldRange(pc[CLOCK])

\* The Main Menu task takes the step after an answer that is neither y nor n
BadAnswerStep ==
  /\ pc[MENU] = "led_got"
  /\ pc'[MENU] # pc[MENU]
  /\ LineRead(MENU)
  /\ FirstByte(cUartMsg[MENU]) \notin {CH_y, CH_Y, CH_n, CH_N}

\* The step posts exactly one message, and it is no prompt
ErrorPosted ==
  /\ Len(uartQueue') = Len(uartQueue) + 1
  /\ uartQueue'[Len(uartQueue')] \in {MsgTimeout, MsgUnrecognized, MsgBadOperator}

\* C27: no silent errors.  The step that handles an input in error (an
\* operand that is no number, an unknown operator, a field that is no number
\* or out of range, an answer that is neither y nor n) posts a message for
\* the user before the owning loop goes on.
C27_NoSilentErrors ==
  [][(BadOperandStep \/ BadOperatorStep \/ BadFieldStep \/ BadAnswerStep) => ErrorPosted]_vars

\* The positions after the read of a menu, with the task that reads and the
\* digits the menu knows
MenuSites == {"mm_got", "ck_got", "tm_got"}

MenuTask(site) == IF site = "ck_got" THEN CLOCK ELSE MENU

ValidDigits(site) ==
  CASE site = "mm_got" -> 1..6
    [] site = "ck_got" -> 1..4
    [] site = "tm_got" -> 1..3

\* The task of the menu takes the step after a line whose first byte is none
\* of the menu's digits
UnrecognizedStep(site) ==
  /\ pc[MenuTask(site)] = site
  /\ pc'[MenuTask(site)] # site
  /\ LineRead(MenuTask(site))
  /\ OptionSelected(cUartMsg[MenuTask(site)]) \notin ValidDigits(site)

\* One error message is posted, no task is notified and no flag changes
OnlyReported ==
  /\ uartQueue' = Append(uartQueue, MsgUnrecognized)
  /\ notified' = notified
  /\ xGoToSleep' = xGoToSleep
  /\ xShowTemps' = xShowTemps
  /\ xRunTempMonitor' = xRunTempMonitor
  /\ xQuitCurrentApp' = xQuitCurrentApp

\* The position at which the menu of a site is posted
MenuTop(site) ==
  CASE site = "mm_got" -> "mm_menu"
    [] site = "ck_got" -> "ck_menu"
    [] site = "tm_got" -> "tm_prompt"

AnswerStep(cs) ==
  /\ pc[MENU] = "led_got"
  /\ pc'[MENU] # "led_got"
  /\ LineRead(MENU)
  /\ FirstByte(cUartMsg[MENU]) \in cs

\* What an enable leaves: one timer, running, and a second enable would
\* leave the same; an enable of a running timer changes nothing
EnableIdempotent ==
  /\ pxLedToggleTimer' = "LED-TIMER"
  /\ timerState' = "active"
  /\ LedToggleEnable(pxLedToggleTimer', timerState') = { <<pxLedToggleTimer', timerState'>> }
  /\ timerState = "active" => UNCHANGED ledVars

\* What a disable leaves: nothing changed when there is no handle; with a
\* timer that exists the timer stopped and the pin low; and a second disable
\* would leave the same
DisableIdempotent ==
  /\ pxLedToggleTimer' = pxLedToggleTimer
  /\ pxLedToggleTimer = "NULL" => UNCHANGED ledVars
  /\ (pxLedToggleTimer # "NULL" /\ timerState \in {"active", "dormant"}) =>
        timerState' = "dormant" /\ led' = FALSE
  /\ LedToggleDisable(pxLedToggleTimer', timerState', led') = <<timerState', led'>>

\* C29: blink idempotence.  Every enable leaves one timer, running, and a
\* further enable leaves the same state; every disable leaves a state a
\* further disable does not change; a disable with no timer ever created
\* changes nothing; a disable of an existing timer leaves it stopped and the
\* LED pin off.
C29_BlinkIdempotence ==
  [][ /\ AnswerStep({CH_y, CH_Y}) => EnableIdempotent
      /\ AnswerStep({CH_n, CH_N}) => DisableIdempotent ]_vars

\* The Game task converts a guess that was read successfully and is no number
InvalidGuess ==
  /\ pc[GAME] = "gm_got"
  /\ pc'[GAME] # "gm_got"
  /\ xReadSuccess[GAME]
  /\ ~xQuitCurrentApp[GAME]
  /\ lUartMsgtoInt32(cUartMsg[GAME]) = INVALID_NUM

\* C30: game restart on an invalid guess.  A guess that is no number is not
\* judged: the inner loop is left without a hint and without the success
\* message, so that the outer loop begins a new round with a new number and
\* the counter reset.
C30_InvalidGuessRestarts ==
  [][InvalidGuess => pc'[GAME] = "gm_end" /\ lUserGuess' # ucSelectedNum]_vars

\* The positions of vSetAlarm after a field was read
AlarmSites == {"al_h_got", "al_m_got", "al_s_got"}

\* C31: the alarm is all or nothing.  Alarm A changes only in the step after
\* the second, when hour, minute and second were each read successfully,
\* without quit and within 0..23, 0..59 and 0..59, and it becomes those
\* three; that step always sets it.  After a field that is refused (no
\* number, out of range, timed out, quit) the alarm set before is unchanged
\* and the flow is left.
C31_AlarmAllOrNothing ==
  [][ /\ rtcAlarm' # rtcAlarm =>
           /\ FieldStep("al_s_got")
           /\ FieldOk(CLOCK, "al_s_got")
      /\ (FieldStep("al_s_got") /\ FieldOk(CLOCK, "al_s_got")) =>
           /\ Len(xAlarmAConfig) = 2
           /\ xAlarmAConfig[1] \in 0..23
           /\ xAlarmAConfig[2] \in 0..59
           /\ lUartMsgtoInt32(cUartMsg[CLOCK]) \in 0..59
           /\ rtcAlarm' = Append(xAlarmAConfig, lUartMsgtoInt32(cUartMsg[CLOCK]))
      /\ FieldRefused(AlarmSites) =>
           /\ rtcAlarm' = rtcAlarm
           /\ uartQueue' = uartQueue
           /\ pc'[CLOCK] = (IF xQuitCurrentApp[CLOCK] THEN "wait" ELSE "ck_menu")
    ]_vars

\* An alarm was set earlier, and the hour of a new one is out of range
C31_Witness ==
  /\ pc[CLOCK] = "al_h_got"
  /\ LineRead(CLOCK)
  /\ lUartMsgtoInt32(cUartMsg[CLOCK]) = 33
  /\ rtcAlarm = <<3, 33, 1>>

\* USART2_IRQHandler runs: the only step that empties the data register
\* while the interrupt is pending
HandlerStep == IrqPending /\ rx' = <<>>

\* A task of priority 1 other than the Main Menu task that is not blocked
OtherTaskReady ==
  \/ \E t \in {CLOCK, GAME, CALC} : ~(pc[t] = "wait" /\ ~notified[t])
  \/ ~(pc[TEMP] = "delay" \/ (pc[TEMP] = "wait" /\ ~notified[TEMP]))

\* What xTaskNotifyFromISR reports through pxHigherPriorityTaskWoken: the
\* notification took the Main Menu task out of its wait, and the task that
\* was interrupted has a lower priority (it is the idle task)
HigherPriorityTaskWoken ==
  /\ pc[MENU] = "sl_wait"
  /\ ~notified[MENU]
  /\ ~WriterReady
  /\ ~OtherTaskReady

\* C32: the wake interrupt yields.  USART2_IRQHandler calls taskYIELD()
\* exactly when its notification made the Main Menu task ready and that task
\* outranks the task interrupted, as xTaskNotifyFromISR reports it.
C32_WakeInterruptYield ==
  [][HandlerStep => (xYieldPending' = HigherPriorityTaskWoken)]_vars

\* C33: the wake interrupt is scoped to sleep.  The USART2 RXNE interrupt is
\* enabled only while the Main Menu task is in the sleep routine between
\* arming and disarming, and never while a task is inside xReceiveUartMsg.
C33_WakeInterruptScoped ==
  rxneIE =>
    /\ pc[MENU] \in {"sl_set", "sl_wait", "sl_disarm"}
    /\ \A t \in Readers : rd[t] = "idle"

\* sizeof(cUartMsg) of the buffer a task hands to xReceiveUartMsg at its
\* position: 150 bytes in the Clock and Game task functions and in
\* vManageTempMonitor, 50 bytes everywhere else; scaled down.
BufferSize(t) ==
  (IF \/ t = GAME
      \/ t = CLOCK /\ pc[CLOCK] \in {"ck_read", "ck_got"}
      \/ t = MENU /\ pc[MENU] \in {"tm_read", "tm_got"}
     THEN 150 ELSE 50) \div BufferScale

\* C34: line-buffer bounds.  Whatever is typed, the bytes xReceiveUartMsg has
\* stored in the caller's buffer are never more than the buffer holds.
C34_LineBufferBounds == \A t \in Readers : Len(cUartMsg[t]) <= BufferSize(t)

\* C35: validity of the blink timer handle.  A handle that is not NULL
\* refers to a timer that was created and not deleted.
C35_TimerHandleValid == pxLedToggleTimer # "NULL" => timerState \in {"active", "dormant"}

\* C36: the extrema bracket the samples.  After every measurement the lowest
\* temperature recorded is at most the temperature just measured, and that
\* is at most the highest recorded.
C36_ExtremaBracket ==
  [][MonStep("sample") =>
       fLowestTemp' <= fCurrentTemp' /\ fCurrentTemp' <= fHighestTemp']_vars


(***************************************************************************)
(* C37  Message content integrity: while a pointer to a producer's buffer  *)
(* is queued or being transmitted, the buffer holds the text it held when  *)
(* the pointer was enqueued: the monitor's one statistics buffer, the      *)
(* stack buffer of the date and time display and the buffers of the game   *)
(* and the calculator are not overwritten, zeroed or left behind before    *)
(* their message has been transmitted.                                     *)
(***************************************************************************)
Buffered(m) == BufferOf(m) \in Producers

C37_MessageIntegrity ==
  \A i \in 1..Len(pendingOut) :
    Buffered(pendingOut[i]) => msgBuffer[BufferOf(pendingOut[i])] = pendingOut[i]

\* The second of the monitor's three messages is being transmitted from the
\* buffer that held the first
C37_Witness ==
  /\ pc[WRITER] = "send"
  /\ txPos > 0
  /\ pcData = MsgVal(MsgTempHighest.text, fHighestTemp)
  /\ pc[TEMP] = "show_low"
  /\ msgBuffer[TEMP] = pcData
  /\ pendingOut = <<pcData>>

\* The Game task converts the line read and compares the guess
GuessJudged == pc[GAME] = "gm_got" /\ pc'[GAME] # "gm_got"

\* The guess is taken to equal the selected number
JudgedCorrect == GuessJudged /\ lUserGuess' = ucSelectedNum

(***************************************************************************)
(* C38  Game guess width: a guess is judged correct only if the number the *)
(* line converts to equals the selected number, which lies in 0..25; a     *)
(* number outside 0..25 (the selected number plus 256) and the invalid     *)
(* number are never judged correct.                                        *)
(***************************************************************************)
C38_GuessWidth ==
  [][JudgedCorrect =>
       /\ lUartMsgtoInt32(cUartMsg[GAME]) = ucSelectedNum
       /\ lUartMsgtoInt32(cUartMsg[GAME]) \in 0..25]_vars

\* The Game task posts the success message
CorrectPosted ==
  /\ Len(uartQueue') = Len(uartQueue) + 1
  /\ uartQueue'[Len(uartQueue')].text = MsgCorrect(0).text

(***************************************************************************)
(* C39  The success message of the game requires a completed guess: it is  *)
(* posted only after a line read that returned success without a quit      *)
(* request.  A read that timed out, digits having been typed without the   *)
(* return key, and a quit line never produce it.                           *)
(***************************************************************************)
C39_CorrectNeedsCompletedGuess ==
  [][CorrectPosted => xReadSuccess[GAME] /\ ~xQuitCurrentApp[GAME]]_vars

\* The positions at which task t is in xTaskNotifyWait
WaitSites(t) == IF t = MENU THEN {"mm_wait", "sl_wait"} ELSE {"wait"}

\* Task t is blocked in its notification wait, no notification pending
WaitsInVain(t) == pc[t] \in WaitSites(t) /\ ~notified[t]

\* The Main Menu task waits to be woken from sleep by the receive interrupt
SleepArmed == pc[MENU] = "sl_wait" /\ rxneIE

\* Task t notifies the Main Menu task and goes to wait
HandsBack(t) == pc[t] \notin WaitSites(t) /\ pc'[t] \in WaitSites(t)

\* Task t takes a notification
Consumes(t) == notified[t] /\ ~notified'[t]

(***************************************************************************)
(* C40  No lost wake-up: in no state are the Main Menu task and the Clock, *)
(* Game and Calculator tasks all blocked in their notification waits with  *)
(* no notification pending, unless the Main Menu task is in the wait of    *)
(* the sleep mode with the receive interrupt enabled.  A notification sent *)
(* to a task that is not waiting stays pending until that task's next wait *)
(* takes it.                                                               *)
(***************************************************************************)
C40_NoLostWakeup ==
  /\ [](SleepArmed \/ \E t \in Exclusive \cup {MENU} : ~WaitsInVain(t))
  /\ [][\A t \in Waiters :
          /\ Consumes(t) => pc[t] \in WaitSites(t) /\ pc'[t] \notin WaitSites(t)
          /\ (notified[t] /\ pc[t] \notin WaitSites(t)) => notified'[t]]_vars
  /\ [][(HandlerStep \/ \E t \in Exclusive : HandsBack(t)) => notified'[MENU]]_vars

\* The Main Menu task was notified while it was not waiting; the notification
\* is pending, and the Clock, Game and Calculator tasks wait
C40_Witness ==
  /\ notified[MENU]
  /\ pc[MENU] \notin WaitSites(MENU)
  /\ \A t \in Exclusive : WaitsInVain(t)
====
